---- MODULE Spec2Model ----
(***************************************************************************)
(* HomeBrainz device telemetry coordinator                                 *)
(* (custom_components/homebrainz): the WebSocket handler with its          *)
(* backoff/give-up loop, the message dispatch into coordinator.data, the   *)
(* HTTP fallback poll, the command sender, and the entities that write the *)
(* snapshot (screen switches, brightness number).                          *)
(*                                                                         *)
(* Python values are represented as follows.                               *)
(*   dict            a function whose DOMAIN is the set of keys            *)
(*   None / absent   the empty tuple <<>> (optional scalars are <<>> or    *)
(*                   <<v>>; coordinator.data is <<>> before the first      *)
(*                   refresh)                                              *)
(*   decoded JSON    a tagged record [kind, val] so that isinstance()      *)
(*                   checks are decided by the tag                         *)
(***************************************************************************)
EXTENDS Integers, Sequences, FiniteSets, TLC

\* ------------------------------------------------------------------ bounds
\* largest timestamp a device frame carries
MaxTime == 1
\* number of screen switches the user operates (a prefix of DEFAULT_SCREEN_ORDER)
NumSwitches == 2
\* screen toggles whose POST is in flight at the same time
MaxInFlight == 2
\* messages the device has sent ahead of the receive loop
MaxQueue == 2
\* async_stop_websocket calls that have not returned yet
MaxStops == 2
\* config entries (devices) of the domain
NumEntries == 2
\* failures _retry_count counts before a connection succeeds, over all the
\* handler tasks of a coordinator
MaxFailures == 7

\* ------------------------------------------------------- program constants
WEBSOCKET_RETRY_DELAY == 10
WEBSOCKET_MAX_RETRIES == 5
BACKOFF_CAP == 60
BRIGHTNESS_MIN == 0
BRIGHTNESS_MAX == 15
DEFAULT_SCREEN_ORDER == <<"clock", "temp", "humidity", "pressure", "gas", "iaq">>

\* ------------------------------------------------------------ Python values
None == <<>>
Some(v) == <<v>>
EmptyDict == <<>>

Min(a, b) == IF a <= b THEN a ELSE b
Max(a, b) == IF a >= b THEN a ELSE b

\* dict.get(key, default)
Get(d, k, default) == IF k \in DOMAIN d THEN d[k] ELSE default

\* d[k] = v on a copy of d
Put(d, k, v) == [x \in DOMAIN d \cup {k} |-> IF x = k THEN v ELSE d[x]]

\* d.update(p) on a copy of d
Update(d, p) == [x \in DOMAIN d \cup DOMAIN p |-> IF x \in DOMAIN p THEN p[x] ELSE d[x]]

\* d.setdefault(k, v) on a copy of d
SetDefault(d, k, v) == IF k \in DOMAIN d THEN d ELSE Put(d, k, v)

\* decoded JSON values
JDict(f) == [kind |-> "dict", val |-> f]
JList(s) == [kind |-> "list", val |-> s]
JOther == [kind |-> "other", val |-> <<>>]

AsDictUnchecked(j) == IF j.kind = "dict" THEN j.val ELSE j

\* `x or {}` followed by `if not isinstance(x, dict): x = {}`
AsDict(j) == IF j.kind = "dict" THEN j.val ELSE EmptyDict

VARIABLES
    life,                 \* config entry: "setup", "loaded", "failed", "unloaded"
    lib_closed_attr,      \* whether the installed websockets library exposes .closed
    websocket_task,       \* position of _websocket_handler (self._websocket_task)
    retry_count,          \* self._retry_count
    websocket_connected,  \* self._websocket_connected
    websocket,            \* self._websocket is not None
    sock,                 \* the latest connection object: "none", "open", "closed"
    delay,                \* seconds of the asyncio.sleep the handler is in, else 0
    data,                 \* coordinator.data (the Snapshot), <<>> before the first fetch
    poll,                 \* position and fetched bodies of the running _async_update_data
    posts,                \* screen toggles whose POST /display/screens is in flight
    inbox,                \* messages the device sent that the receive loop has not read
    reply,                \* the frame the dispatch in progress is about to send, else <<>>
    sent,                 \* frames written to the transport by the last step
    posted,               \* HTTP POST requests issued by the last step
    flow,                 \* what the last step of the config flow returned
    entries,              \* unique ids of the config entries the flow created
    heap,                 \* the Python objects behind the Snapshots, by object id
    root,                 \* the id of the object coordinator.data refers to, 0 for None
    old_tasks,            \* positions of the handler tasks _websocket_task referred to before
    stops,                \* async_stop_websocket calls at their `await self._websocket_task`
    registry,             \* the entry ids in hass.data[DOMAIN], in insertion order
    services,             \* whether the services of the domain are registered
    setups,               \* position of each config entry in its setup or unload
    ret                   \* the last step: operation and what it returned

conn_vars == <<websocket_task, retry_count, websocket_connected, websocket, sock, delay>>
chan_vars == <<inbox, reply>>
flow_vars == <<flow, entries>>
heap_vars == <<heap, root>>
task_vars == <<old_tasks, stops>>
hass_vars == <<registry, services, setups>>
aux_vars == <<flow, entries, heap, root, old_tasks, stops, registry, services, setups>>
vars == <<life, lib_closed_attr, websocket_task, retry_count, websocket_connected,
          websocket, sock, delay, data, poll, posts, inbox, reply, sent, posted, flow,
          entries, heap, root, old_tasks, stops, registry, services, setups, ret>>

Returned(op, val) == [op |-> op, val |-> val]

\* ------------------------------------------------------------ Command path
\* what the transport answers to websocket.send
TransportAnswers(sk) == IF sk = "open" THEN {"ok", "transport_error"} ELSE {"transport_error"}

\* answers in which `closed` is a callable and calling it raises, the write
\* that follows being accepted by an open transport or failing
CheckFailures == {"check_raises", "check_raises_then_transport_error"}

IsClosedWhenCheckRaises(sk, answer) ==
    IF answer \in CheckFailures THEN TRUE ELSE lib_closed_attr /\ sk = "closed"

\* is_closed = getattr(websocket, "closed", False), called if it is callable
IsClosed(sk, answer) ==
    IF answer \in CheckFailures THEN FALSE ELSE lib_closed_attr /\ sk = "closed"

\* whether `await websocket.send(...)` returns
Accepts(sk, answer) == answer = "ok" \/ (answer = "check_raises" /\ sk = "open")

\* _send_websocket_command(command): the new _websocket, _websocket_connected
\* and the frames written
send_websocket_command(ws, connected, sk, command, answer) ==
    IF ~ws
    THEN [websocket |-> ws, connected |-> connected, frames |-> <<>>]
    ELSE IF IsClosed(sk, answer)
    THEN [websocket |-> ws, connected |-> connected, frames |-> <<>>]
    ELSE IF Accepts(sk, answer)
    THEN [websocket |-> ws, connected |-> connected, frames |-> <<command>>]
    ELSE [websocket |-> FALSE, connected |-> FALSE, frames |-> <<>>]

\* the value send_device_command returns after _send_websocket_command came back
CommandResult(s) == "True"

CommandAcceptedAlways(connected) == TRUE

\* whether send_device_command hands the command to the transport
CommandAccepted(connected) == connected

Commands == {[command |-> "restart"], [command |-> "set_brightness", value |-> 7]}

Loaded == life \in {"loaded", "unloaded"}

\* send_device_command(command, **kwargs), as the services call it
send_device_command(cmd, answer) ==
    /\ Loaded
    /\ IF CommandAccepted(websocket_connected)
       THEN LET s == send_websocket_command(websocket, websocket_connected, sock, cmd, answer)
            IN /\ websocket' = s.websocket
               /\ websocket_connected' = s.connected
               /\ sent' = s.frames
               /\ ret' = Returned("send_device_command", CommandResult(s))
       ELSE /\ UNCHANGED <<websocket, websocket_connected>>
            /\ sent' = <<>>
            /\ ret' = Returned("send_device_command", "False")
    /\ posted' = <<>>
    /\ UNCHANGED <<aux_vars, chan_vars, life, lib_closed_attr, websocket_task, retry_count, sock, delay,
                   data, poll, posts>>

SendDeviceCommand ==
    \E cmd \in Commands : \E answer \in TransportAnswers(sock) :
        send_device_command(cmd, answer)

\* send_device_command on a library whose `closed` is a callable that raises
SendWithFailingCheck ==
    /\ lib_closed_attr
    /\ \E cmd \in Commands : \E answer \in CheckFailures : send_device_command(cmd, answer)

\* ------------------------------------------------------- Connection manager
BackoffDelayBeforeIncrement(n) == Min(WEBSOCKET_RETRY_DELAY * (n - 1), BACKOFF_CAP)

\* delay = min(WEBSOCKET_RETRY_DELAY * self._retry_count, 60)
BackoffDelay(n) == Min(WEBSOCKET_RETRY_DELAY * n, BACKOFF_CAP)

AfterTransportFailureStrict(n) == IF n < WEBSOCKET_MAX_RETRIES THEN "backoff" ELSE "gave_up"

\* if self._retry_count <= WEBSOCKET_MAX_RETRIES: sleep, else: break
AfterTransportFailure(n) == IF n <= WEBSOCKET_MAX_RETRIES THEN "backoff" ELSE "gave_up"

\* the count the except clause works with
CountFailure(n) == n + 1

\* leaving `async with websockets.connect(...)` closes the connection
Left(sk) == IF sk = "open" THEN "closed" ELSE sk

\* except (WebSocketException, ConnectionClosedError, OSError)
TransportFailure ==
    LET n == CountFailure(retry_count) IN
    /\ retry_count < MaxFailures
    /\ websocket_connected' = FALSE
    /\ websocket' = FALSE
    /\ retry_count' = n
    /\ websocket_task' = AfterTransportFailure(n)
    /\ delay' = IF AfterTransportFailure(n) = "backoff" THEN BackoffDelay(n) ELSE 0
    /\ sock' = Left(sock)

\* except Exception
UnexpectedFailure ==
    /\ websocket_task' = "error_sleep"
    /\ delay' = WEBSOCKET_RETRY_DELAY
    /\ sock' = Left(sock)
    /\ UNCHANGED <<retry_count, websocket_connected, websocket>>

\* what websockets.connect and the receive loop can raise: a
\* WebSocketException or OSError, a timeout, anything else
FailureKinds == {"transport_error", "timeout", "unexpected_error"}

ClausesWithoutCatchAll(kind) ==
    IF kind = "transport_error" THEN {"transport"}
    ELSE IF kind = "timeout" THEN {"transport", "none"}
    ELSE {"none"}

\* the except clause of _websocket_handler that takes the exception: a timeout
\* is an OSError from Python 3.11 on and only an Exception before
Clauses(kind) ==
    IF kind = "transport_error" THEN {"transport"}
    ELSE IF kind = "timeout" THEN {"transport", "unexpected"}
    ELSE {"unexpected"}

\* an exception no clause takes ends the task
Unhandled ==
    /\ websocket_task' = "crashed"
    /\ delay' = 0
    /\ sock' = Left(sock)
    /\ UNCHANGED <<retry_count, websocket_connected, websocket>>

\* the handler after an exception of kind left its try block
Failed(kind) ==
    \E clause \in Clauses(kind) :
        IF clause = "transport" THEN TransportFailure
        ELSE IF clause = "unexpected" THEN UnexpectedFailure
        ELSE Unhandled

Quiet == sent' = <<>> /\ posted' = <<>>

\* websockets.connect succeeds
ConnectOk ==
    /\ websocket_task = "connecting"
    /\ websocket' = TRUE
    /\ websocket_connected' = TRUE
    /\ retry_count' = 0
    /\ sock' = "open"
    /\ websocket_task' = "bootstrap_status"
    /\ delay' = 0
    /\ Quiet
    /\ ret' = Returned("connect", "ok")
    /\ UNCHANGED <<aux_vars, chan_vars, life, lib_closed_attr, data, poll, posts>>

\* websockets.connect raises
ConnectFail ==
    /\ websocket_task = "connecting"
    /\ \E kind \in FailureKinds : Failed(kind) /\ ret' = Returned("connect", kind)
    /\ Quiet
    /\ UNCHANGED <<aux_vars, chan_vars, life, lib_closed_attr, data, poll, posts>>

BootstrapCommandSwapped(pc) ==
    IF pc = "bootstrap_status" THEN [command |-> "get_sensors"] ELSE [command |-> "get_status"]

\* the initial query the handler sends at position pc
BootstrapCommand(pc) ==
    IF pc = "bootstrap_status" THEN [command |-> "get_status"] ELSE [command |-> "get_sensors"]

\* one of the two initial queries, answered by the transport with answer
BootstrapSend(answer) ==
    /\ websocket_task \in {"bootstrap_status", "bootstrap_sensors"}
    /\ answer \in TransportAnswers(sock)
    /\ LET s == send_websocket_command(websocket, websocket_connected, sock,
                                       BootstrapCommand(websocket_task), answer)
       IN /\ websocket' = s.websocket
          /\ websocket_connected' = s.connected
          /\ sent' = s.frames
    /\ websocket_task' = IF websocket_task = "bootstrap_status"
                         THEN "bootstrap_sensors" ELSE "receiving"
    /\ posted' = <<>>
    /\ ret' = Returned("bootstrap", "None")
    /\ UNCHANGED <<aux_vars, chan_vars, life, lib_closed_attr, retry_count, sock, delay, data, poll, posts>>

\* the two initial queries
Bootstrap == \E answer \in {"ok", "transport_error"} : BootstrapSend(answer)

\* the receive loop raises
ReceiveFail ==
    /\ websocket_task = "receiving"
    /\ \E kind \in FailureKinds : Failed(kind) /\ ret' = Returned("receive", kind)
    /\ inbox' = <<>>
    /\ Quiet
    /\ UNCHANGED <<aux_vars, reply, life, lib_closed_attr, data, poll, posts>>

\* the device closes the channel cleanly: `async for` ends, the loop reconnects
ReceiveClosed ==
    /\ websocket_task = "receiving"
    /\ inbox = <<>>
    /\ websocket_task' = "connecting"
    /\ sock' = "closed"
    /\ Quiet
    /\ ret' = Returned("receive", "closed")
    /\ UNCHANGED <<aux_vars, chan_vars, life, lib_closed_attr, retry_count, websocket_connected, websocket,
                   delay, data, poll, posts>>

ResumesAfterGiveUp(pc) == pc \in {"backoff", "error_sleep", "gave_up"}

\* positions from which the handler goes on to another connection attempt
Resumes(pc) == pc \in {"backoff", "error_sleep"}

\* asyncio.sleep returns
SleepDone ==
    /\ Resumes(websocket_task)
    /\ websocket_task' = "connecting"
    /\ delay' = 0
    /\ Quiet
    /\ ret' = Returned("sleep", "None")
    /\ UNCHANGED <<aux_vars, chan_vars, life, lib_closed_attr, retry_count, websocket_connected, websocket,
                   sock, data, poll, posts>>

CancelledForgetsTask(task) == IF task = "none" THEN task ELSE "cancelled"

\* the task after cancel() and `await self._websocket_task`
Cancelled(task) == IF task \in {"none", "gave_up"} THEN task ELSE "cancelled"

\* whether a stop closes the connection: the cancelled handler leaves its
\* `async with`, and a handle that is set is closed
Closes(task, ws) ==
    ws \/ task \in {"bootstrap_status", "bootstrap_sensors", "receiving", "dispatching"}

\* the body of async_stop_websocket
stop_websocket ==
    /\ websocket_task' = Cancelled(websocket_task)
    /\ sock' = IF Closes(websocket_task, websocket) THEN Left(sock) ELSE sock
    /\ websocket' = FALSE
    /\ delay' = 0
    /\ inbox' = <<>>
    /\ reply' = <<>>
    /\ Quiet
    /\ ret' = Returned("async_stop_websocket", "None")
    /\ UNCHANGED <<aux_vars, lib_closed_attr, retry_count, websocket_connected, data, poll, posts>>

\* async_stop_websocket, called by async_unload_entry
async_stop_websocket ==
    /\ life = "loaded"
    /\ life' = "unloaded"
    /\ stop_websocket

\* async_stop_websocket called on the coordinator at any other time
StopCall ==
    /\ stop_websocket
    /\ UNCHANGED life

\* ------------------------------------------------------------- State store
NoData == <<>>

\* `self.data or {"sensors": {}, "status": {}, "screens": []}`
Existing(d) ==
    IF d = NoData THEN [sensors |-> EmptyDict, status |-> EmptyDict, screens |-> <<>>] ELSE d

\* the dict every dispatch branch hands to async_set_updated_data
Snapshot(sensors, status, screens) ==
    [sensors |-> sensors, status |-> status, screens |-> screens]

\* ------------------------------------------------------- Message dispatcher
Timestamps == {None} \cup {Some(t) : t \in 1..MaxTime}

SensorBodies ==
    {JDict([bme280 |-> 1]), JDict([ens160 |-> 2, sensors_available |-> 0]),
     JDict([bme680 |-> JOther]), JOther}
StatusBodies == {JDict([brightness |-> 7]), JDict([last_status_update |-> 0]), JOther}
ReplyBodies == {JDict([brightness |-> 7]), JDict(EmptyDict), JOther}

Frame(type, command, success, body, ts, sa) ==
    [type |-> type, command |-> command, success |-> success, data |-> body,
     timestamp |-> ts, sensors_available |-> sa]

Frames ==
    {Frame(Some("sensor_update"), None, FALSE, b, ts, sa) :
        b \in SensorBodies, ts \in Timestamps, sa \in {None, Some(1)}}
    \cup {Frame(Some("status_update"), None, FALSE, b, ts, None) :
        b \in StatusBodies, ts \in Timestamps}
    \cup {Frame(Some("ping"), None, FALSE, JOther, ts, None) : ts \in Timestamps}
    \cup {Frame(None, Some("get_sensors"), TRUE, b, None, None) : b \in SensorBodies}
    \cup {Frame(None, Some("get_status"), TRUE, b, None, None) : b \in StatusBodies}
    \cup {Frame(None, Some("set_brightness"), TRUE, b, None, None) : b \in ReplyBodies}
    \cup {Frame(None, Some(c), FALSE, JDict([brightness |-> 7]), None, None) :
        c \in {"get_sensors", "get_status", "set_brightness"}}
    \cup {Frame(None, None, FALSE, JOther, None, None)}

\* what a dispatch branch does: the snapshot it installs (written tells whether
\* async_set_updated_data was called), the frames it asks to send, and whether
\* it ended in an exception
Effect(written, d, request) ==
    [written |-> written, data |-> d, request |-> request, raised |-> FALSE]

\* a message the receive loop logs and drops: the Snapshot stays
Dropped(d, raised) == [written |-> FALSE, data |-> d, request |-> <<>>, raised |-> raised]

\* the sensor entities read sensors["bme680"].get(...) (else "aht20", "bmp280")
\* when the coordinator notifies them: a section that is not a mapping raises
ObserversRaise(d) ==
    LET sensors == Get(d, "sensors", EmptyDict)
    IN IF "bme680" \in DOMAIN sensors
       THEN sensors["bme680"].kind # "dict"
       ELSE \E k \in {"aht20", "bmp280"} \cap DOMAIN sensors : sensors[k].kind # "dict"

\* async_set_updated_data(d): self.data = d, then every listener is called; an
\* exception of a listener ends the dispatch before the statements that follow
Notified(e) ==
    IF e.written /\ ObserversRaise(e.data)
    THEN [written |-> TRUE, data |-> e.data, request |-> <<>>, raised |-> TRUE]
    ELSE e

OnSensorUpdateFlagOverrides(d, f) ==
    LET raw == AsDict(f.data)
        raw_sensor_data == IF f.sensors_available # None
                           THEN Put(raw, "sensors_available", f.sensors_available[1])
                           ELSE raw
        existing == Existing(d)
        status == Get(existing, "status", EmptyDict)
        current_status == IF f.timestamp # None
                          THEN Put(status, "last_sensor_update", f.timestamp[1])
                          ELSE status
    IN Effect(TRUE,
              Snapshot(raw_sensor_data, current_status, Get(existing, "screens", <<>>)),
              <<>>)

\* message_type == "sensor_update"
OnSensorUpdate(d, f) ==
    LET raw == AsDict(f.data)
        raw_sensor_data == IF f.sensors_available # None
                           THEN SetDefault(raw, "sensors_available", f.sensors_available[1])
                           ELSE raw
        existing == Existing(d)
        status == Get(existing, "status", EmptyDict)
        current_status == IF f.timestamp # None
                          THEN Put(status, "last_sensor_update", f.timestamp[1])
                          ELSE status
    IN Effect(TRUE,
              Snapshot(raw_sensor_data, current_status, Get(existing, "screens", <<>>)),
              <<>>)

OnStatusUpdateOverwriting(d, f) ==
    LET payload == AsDict(f.data)
        status_payload == IF f.timestamp # None
                          THEN Put(payload, "last_status_update", f.timestamp[1])
                          ELSE payload
        existing == Existing(d)
        sensors_snapshot == Get(existing, "sensors", EmptyDict)
    IN Effect(TRUE,
              Snapshot(sensors_snapshot, status_payload, Get(existing, "screens", <<>>)),
              IF sensors_snapshot = EmptyDict THEN <<[command |-> "get_sensors"]>> ELSE <<>>)

\* message_type == "status_update"
OnStatusUpdate(d, f) ==
    LET payload == AsDict(f.data)
        status_payload == IF f.timestamp # None
                          THEN SetDefault(payload, "last_status_update", f.timestamp[1])
                          ELSE payload
        existing == Existing(d)
        sensors_snapshot == Get(existing, "sensors", EmptyDict)
    IN Effect(TRUE,
              Snapshot(sensors_snapshot, status_payload, Get(existing, "screens", <<>>)),
              IF sensors_snapshot = EmptyDict THEN <<[command |-> "get_sensors"]>> ELSE <<>>)

OnPingWithoutTimestamp(d, f) == Effect(FALSE, d, <<[type |-> "pong"]>>)

\* message_type == "ping"
OnPing(d, f) == Effect(FALSE, d, <<[type |-> "pong", timestamp |-> f.timestamp]>>)

OnReplyIgnoringSuccess(d, f) ==
    LET existing == Existing(d)
        sensors == Get(existing, "sensors", EmptyDict)
        status == Get(existing, "status", EmptyDict)
        screens == Get(existing, "screens", <<>>)
    IN IF f.command = Some("get_sensors")
       THEN Effect(TRUE, Snapshot(AsDict(f.data), status, screens), <<>>)
       ELSE IF f.command = Some("get_status")
       THEN Effect(TRUE, Snapshot(sensors, AsDict(f.data), screens), <<>>)
       ELSE IF AsDict(f.data) # EmptyDict
       THEN Effect(TRUE, Snapshot(sensors, Update(status, AsDict(f.data)), screens), <<>>)
       ELSE Effect(FALSE, d, <<>>)

OnReplyReplacingStatus(d, f) ==
    LET existing == Existing(d)
        sensors == Get(existing, "sensors", EmptyDict)
        status == Get(existing, "status", EmptyDict)
        screens == Get(existing, "screens", <<>>)
    IN IF f.success /\ f.command = Some("get_sensors")
       THEN Effect(TRUE, Snapshot(AsDict(f.data), status, screens), <<>>)
       ELSE IF f.success /\ AsDict(f.data) # EmptyDict
       THEN Effect(TRUE, Snapshot(sensors, AsDict(f.data), screens), <<>>)
       ELSE IF f.success /\ f.command = Some("get_status")
       THEN Effect(TRUE, Snapshot(sensors, EmptyDict, screens), <<>>)
       ELSE Effect(FALSE, d, <<>>)

\* data.get("command"): the reply to a command
OnReply(d, f) ==
    LET existing == Existing(d)
        sensors == Get(existing, "sensors", EmptyDict)
        status == Get(existing, "status", EmptyDict)
        screens == Get(existing, "screens", <<>>)
    IN IF f.success /\ f.command = Some("get_sensors")
       THEN Effect(TRUE, Snapshot(AsDict(f.data), status, screens), <<>>)
       ELSE IF f.success /\ f.command = Some("get_status")
       THEN Effect(TRUE, Snapshot(sensors, AsDict(f.data), screens), <<>>)
       ELSE IF f.success /\ AsDict(f.data) # EmptyDict
       THEN Effect(TRUE, Snapshot(sensors, Update(status, AsDict(f.data)), screens), <<>>)
       ELSE Effect(FALSE, d, <<>>)

\* _handle_websocket_message(data)
handle_websocket_message(d, f) ==
    Notified(IF f.type = Some("sensor_update") THEN OnSensorUpdate(d, f)
             ELSE IF f.type = Some("status_update") THEN OnStatusUpdate(d, f)
             ELSE IF f.type = Some("ping") THEN OnPing(d, f)
             ELSE IF f.command # None THEN OnReply(d, f)
             ELSE Effect(FALSE, d, <<>>))

\* messages that are no frame: text that is not JSON, and JSON that is not an
\* object (data.get raises AttributeError)
InvalidJson == [raw |-> "invalid_json"]
NotAnObject == [raw |-> "not_an_object"]
Garbage == {InvalidJson, NotAnObject}

\* the body of the receive loop for one message: json.loads, the dispatch, and
\* the two except clauses that log and go on
on_message(d, m) ==
    IF m \in Garbage THEN Dropped(d, TRUE) ELSE handle_websocket_message(d, m)

\* what the loop body logs
Outcome(e) == IF e.raised THEN "raised" ELSE IF e.written THEN "updated" ELSE "None"

\* the answers of the transport that matter to a dispatch
DispatchAnswers(e, sk) == IF e.request = <<>> THEN {"unused"} ELSE TransportAnswers(sk)

\* the loop body with effect e, its reply answered by the transport with answer
Applied(e, answer) ==
    /\ data' = e.data
    /\ ret' = Returned("receive", Outcome(e))
    /\ IF e.request = <<>>
       THEN /\ sent' = <<>>
            /\ UNCHANGED <<websocket, websocket_connected>>
       ELSE \E s \in {send_websocket_command(websocket, websocket_connected, sock,
                                             e.request[1], answer)} :
                /\ websocket' = s.websocket
                /\ websocket_connected' = s.connected
                /\ sent' = s.frames

\* one message of the receive loop, read as it arrives: json.loads, dispatch,
\* and the reply it sends, answered by the transport with answer
Dispatch(f, answer) ==
    /\ websocket_task = "receiving"
    /\ inbox = <<>>
    /\ \E e \in {on_message(data, f)} :
        /\ answer \in DispatchAnswers(e, sock)
        /\ Applied(e, answer)
    /\ posted' = <<>>
    /\ UNCHANGED <<aux_vars, chan_vars, life, lib_closed_attr, websocket_task, retry_count, sock, delay,
                   poll, posts>>

ReceiveFrame(f) ==
    /\ websocket_task = "receiving"
    /\ inbox = <<>>
    /\ \E e \in {on_message(data, f)} :
        \E answer \in DispatchAnswers(e, sock) : Applied(e, answer)
    /\ posted' = <<>>
    /\ UNCHANGED <<aux_vars, chan_vars, life, lib_closed_attr, websocket_task, retry_count, sock, delay,
                   poll, posts>>

\* the receive loop takes the next frame the device sent
Receive(frames) == \E f \in frames : ReceiveFrame(f)

\* The same loop at the grain of its awaits, for a device that sends while the
\* coordinator is busy: the library queues what arrives, `async for` hands over
\* the oldest message, and the loop body awaits the reply before it reads on.
Arrive(messages) ==
    /\ websocket_task \in {"receiving", "dispatching"}
    /\ sock = "open"
    /\ Len(inbox) < MaxQueue
    /\ \E m \in messages : inbox' = Append(inbox, m)
    /\ Quiet
    /\ ret' = Returned("arrive", "None")
    /\ UNCHANGED <<aux_vars, reply, life, lib_closed_attr, conn_vars, data, poll, posts>>

NewestMessage(q) == q[Len(q)]

\* `async for message in websocket`
NextMessage(q) == Head(q)

\* json.loads and _handle_websocket_message up to the await of its reply
ReadFrame ==
    /\ websocket_task = "receiving"
    /\ inbox # <<>>
    /\ \E e \in {on_message(data, NextMessage(inbox))} :
        /\ data' = e.data
        /\ reply' = e.request
        /\ websocket_task' = IF e.request = <<>> THEN "receiving" ELSE "dispatching"
        /\ ret' = Returned("read", Outcome(e))
    /\ inbox' = Tail(inbox)
    /\ Quiet
    /\ UNCHANGED <<aux_vars, life, lib_closed_attr, retry_count, websocket_connected, websocket, sock,
                   delay, poll, posts>>

\* the reply of the dispatch in progress: `await self._send_websocket_command`
SendReply ==
    /\ websocket_task = "dispatching"
    /\ \E answer \in TransportAnswers(sock) :
        \E s \in {send_websocket_command(websocket, websocket_connected, sock,
                                         reply[1], answer)} :
            /\ websocket' = s.websocket
            /\ websocket_connected' = s.connected
            /\ sent' = s.frames
    /\ reply' = <<>>
    /\ websocket_task' = "receiving"
    /\ posted' = <<>>
    /\ ret' = Returned("reply", "None")
    /\ UNCHANGED <<aux_vars, inbox, life, lib_closed_attr, retry_count, sock, delay, data, poll, posts>>

\* ----------------------------------------------------------- Fallback poller
\* an HTTP exchange: kind is "ok" (status 200), "http_error" (another status),
\* "client_error" (aiohttp.ClientError) or "timeout" (the 10 s deadline)
Response(kind, body) == [kind |-> kind, body |-> body]
Failures == {Response(k, JOther) : k \in {"http_error", "client_error", "timeout"}}

\* rotation lists the device reports
DeviceScreens == {<<"clock">>, <<"temp", "clock">>, <<"weather", "clock">>, <<>>}
ScreenBodies == {JDict([screens |-> JList(l)]) : l \in DeviceScreens}
                \cup {JDict([screens |-> JOther]), JOther}
ScreenResponses == {Response("ok", b) : b \in ScreenBodies} \cup Failures

\* answers to GET /display/screens with status 200: a list, and bodies that
\* hold none
ShapeScreenResponses ==
    {Response("ok", JDict([screens |-> JList(<<"clock", "temp">>)])),
     Response("ok", JDict([screens |-> JOther])), Response("ok", JOther)}

Idle == [pc |-> "idle"]

\* task.done()
Done(task) == task \in {"gave_up", "cancelled", "crashed"}

\* a task that exists and is not done
Live(task) == task # "none" /\ ~Done(task)

CreatesAlways(task) == TRUE

\* `if self._websocket_task is None or self._websocket_task.done()`
Creates(task) == task = "none" \/ Done(task)

\* async_start_websocket: the position of the task _websocket_task refers to
StartTask(task) == IF Creates(task) THEN "connecting" ELSE task

\* the tick raised UpdateFailed: coordinator.data stays; a failed first refresh
\* ends the setup of the entry
PollFailed ==
    /\ poll' = Idle
    /\ life' = IF life = "setup" THEN "failed" ELSE life
    /\ ret' = Returned("poll", "UpdateFailed")
    /\ UNCHANGED <<data, websocket_task>>

\* GET /sensors
PollSensors(responses) ==
    /\ life \in {"setup", "loaded"}
    /\ poll = Idle
    /\ \E r \in responses :
        IF r.kind = "ok"
        THEN /\ poll' = [pc |-> "status", sensor_data |-> r.body]
             /\ ret' = Returned("poll", "None")
             /\ UNCHANGED <<data, life, websocket_task>>
        ELSE PollFailed
    /\ Quiet
    /\ UNCHANGED <<aux_vars, chan_vars, lib_closed_attr, retry_count, websocket_connected, websocket, sock,
                   delay, posts>>

\* GET /status
PollStatus(responses) ==
    /\ poll.pc = "status"
    /\ \E r \in responses :
        IF r.kind = "ok"
        THEN /\ poll' = [pc |-> "screens", sensor_data |-> poll.sensor_data,
                         status_data |-> r.body]
             /\ ret' = Returned("poll", "None")
             /\ UNCHANGED <<data, life, websocket_task>>
        ELSE PollFailed
    /\ Quiet
    /\ UNCHANGED <<aux_vars, chan_vars, lib_closed_attr, retry_count, websocket_connected, websocket, sock,
                   delay, posts>>

\* the screens the tick returns: the cached ones unless the device sent a list
PolledScreens(d, r) ==
    LET existing == IF d = NoData THEN [screens |-> <<>>] ELSE d
        screens == Get(existing, "screens", <<>>)
    IN IF r.kind = "ok" /\ r.body.kind = "dict"
       THEN LET screens_value == Get(r.body.val, "screens", JOther)
            IN IF screens_value.kind = "list" THEN screens_value.val ELSE screens
       ELSE screens

\* the dict _async_update_data returns
PollResult(d, sensor_data, status_data, r) ==
    Snapshot(AsDict(sensor_data), AsDict(status_data), PolledScreens(d, r))

\* GET /display/screens, then the tick's result replaces coordinator.data; the
\* first refresh of the entry goes on to start the WebSocket handler
PollScreens(responses) ==
    /\ poll.pc = "screens"
    /\ \E r \in responses :
        IF r.kind = "timeout"
        THEN PollFailed
        ELSE /\ data' = PollResult(data, poll.sensor_data, poll.status_data, r)
             /\ poll' = Idle
             /\ life' = IF life = "setup" THEN "loaded" ELSE life
             /\ websocket_task' = IF life = "setup" THEN StartTask(websocket_task)
                                  ELSE websocket_task
             /\ ret' = Returned("poll", "updated")
    /\ Quiet
    /\ UNCHANGED <<aux_vars, chan_vars, lib_closed_attr, retry_count, websocket_connected, websocket, sock,
                   delay, posts>>

\* ------------------------------------------------------------ Screen switches
Switches == {DEFAULT_SCREEN_ORDER[i] : i \in 1..NumSwitches}

Range(s) == {s[i] : i \in 1..Len(s)}

\* _get_enabled_screens
get_enabled_screens(d) == IF d = NoData THEN <<>> ELSE Get(d, "screens", <<>>)

\* new_screens = [screen for screen in DEFAULT_SCREEN_ORDER if screen in current]
InOrder(current) == SelectSeq(DEFAULT_SCREEN_ORDER, LAMBDA screen : screen \in current)

NewScreensInStoredOrder(d, screen_id, enabled) ==
    LET stored == get_enabled_screens(d)
    IN IF ~enabled THEN SelectSeq(stored, LAMBDA screen : screen # screen_id)
       ELSE IF screen_id \in Range(stored) THEN stored
       ELSE Append(stored, screen_id)

\* the list _set_enabled computes for the switch screen_id
NewScreens(d, screen_id, enabled) ==
    LET current == Range(get_enabled_screens(d))
    IN InOrder(IF enabled THEN current \cup {screen_id} ELSE current \ {screen_id})

RefusedNever(new_screens) == FALSE

\* `if not new_screens: return`
Refused(new_screens) == new_screens = <<>>

\* _set_enabled(enabled) of the switch screen_id, up to its POST /display/screens
set_enabled(screen_id, enabled) ==
    /\ Loaded
    /\ \E new_screens \in {NewScreens(data, screen_id, enabled)} :
        IF Refused(new_screens)
        THEN /\ posted' = <<>>
             /\ posts' = posts
             /\ ret' = Returned("set_enabled", "refused")
        ELSE IF new_screens = get_enabled_screens(data)
        THEN /\ posted' = <<>>
             /\ posts' = posts
             /\ ret' = Returned("set_enabled", "same")
        ELSE /\ Cardinality(posts) < MaxInFlight
             /\ posted' = <<[screens |-> new_screens]>>
             /\ posts' = posts \cup {new_screens}
             /\ ret' = Returned("set_enabled", "posting")
    /\ sent' = <<>>
    /\ UNCHANGED <<aux_vars, chan_vars, life, lib_closed_attr, conn_vars, data, poll>>

\* async_turn_on / async_turn_off of one of the switches
ToggleBegin == \E screen_id \in Switches, enabled \in BOOLEAN : set_enabled(screen_id, enabled)

\* new_data = deepcopy(existing); new_data["screens"] = new_screens
WithScreens(d, new_screens) == Put(Existing(d), "screens", new_screens)

\* how a POST /display/screens ends
PostAnswers == {"ok", "http_error", "client_error", "timeout"}

AcknowledgedUnlessError(kind) == kind \in {"ok", "http_error"}

\* the POST came back with status 200
Acknowledged(kind) == kind = "ok"

\* the POST of new_screens ends with kind
ToggleAnswer(new_screens, kind) ==
    /\ new_screens \in posts
    /\ kind \in PostAnswers
    /\ posts' = posts \ {new_screens}
    /\ IF Acknowledged(kind)
       THEN /\ data' = WithScreens(data, new_screens)
            /\ ret' = Returned("set_enabled", "updated")
       ELSE /\ data' = data
            /\ ret' = Returned("set_enabled", "failed")
    /\ Quiet
    /\ UNCHANGED <<aux_vars, chan_vars, life, lib_closed_attr, conn_vars, poll>>

\* the answer to the POST arrives
ToggleEnd == \E new_screens \in posts : \E kind \in PostAnswers : ToggleAnswer(new_screens, kind)

\* ---------------------------------------------------------- Brightness number
BrightnessInputs == {7, 20}

\* max(min_value, min(max_value, int(round(value))))
Clamp(value) == Max(BRIGHTNESS_MIN, Min(BRIGHTNESS_MAX, value))

\* status = new_data.setdefault("status", {}); status["brightness"] = brightness
WithBrightness(d, brightness) ==
    LET existing == IF d = NoData THEN [sensors |-> EmptyDict, status |-> EmptyDict] ELSE d
    IN Put(existing, "status", Put(Get(existing, "status", EmptyDict), "brightness", brightness))

\* HomeBrainzBrightnessNumber.async_set_native_value
SetBrightness(values) ==
    /\ Loaded
    /\ \E value \in values : \E answer \in TransportAnswers(sock) :
        LET brightness == Clamp(value)
            cmd == [command |-> "set_brightness", value |-> brightness]
        IN IF CommandAccepted(websocket_connected)
           THEN LET s == send_websocket_command(websocket, websocket_connected, sock,
                                                cmd, answer)
                IN /\ websocket' = s.websocket
                   /\ websocket_connected' = s.connected
                   /\ sent' = s.frames
                   /\ data' = WithBrightness(data, brightness)
                   /\ ret' = Returned("set_native_value", "None")
           ELSE /\ UNCHANGED <<websocket, websocket_connected, data>>
                /\ sent' = <<>>
                /\ ret' = Returned("set_native_value", "HomeAssistantError")
    /\ posted' = <<>>
    /\ UNCHANGED <<aux_vars, chan_vars, life, lib_closed_attr, websocket_task, retry_count, sock, delay,
                   poll, posts>>

\* ------------------------------------------------------------- Firmware (OTA)
OtaInfo == [updateAvailable |-> 1]

\* the ota section after a firmware check
WithOta(d, info) == Put(Existing(d), "ota", info)

\* async_update_ota_status: the firmware check stores its answer as the ota section
UpdateOta ==
    /\ Loaded
    /\ data' = WithOta(data, OtaInfo)
    /\ Quiet
    /\ ret' = Returned("update_ota_status", "updated")
    /\ UNCHANGED <<aux_vars, chan_vars, life, lib_closed_attr, conn_vars, poll, posts>>

\* ---------------------------------------------------------------- Config flow
NoFlow == <<>>

\* what the user types as host: the name, with or without a scheme in front
\* and a slash behind
HostInputs ==
    {[scheme |-> sc, name |-> n, slash |-> sl] :
        sc \in {None, Some("http://")}, n \in {"clock.local", "desk.local"},
        sl \in BOOLEAN}

\* host without its http:// or https:// prefix and without trailing slashes
StripHost(input) == input.name

\* bodies GET /status answers with: a device with and without MAC address, a
\* mapping that does not name a device, a list, and a number
ProbeBodies ==
    {JDict([device |-> "HomeBrainz Clock", mac_address |-> "AA:BB"]),
     JDict([device |-> "HomeBrainz Clock", mac_address |-> "CC:DD"]),
     JDict([device |-> "Desk Clock", mac_address |-> ""]),
     JDict([device |-> "Desk Clock"]),
     JDict([mac_address |-> "AA:BB"]),
     JList(<<"device">>),
     JOther}
ProbeResponses == {Response("ok", b) : b \in ProbeBodies} \cup Failures

Raise(exception) == [raised |-> Some(exception)]
Return(value) == [raised |-> None, value |-> value]

HasDeviceAlways(status_data) == TRUE

\* "device" in status_data, for a mapping or a list
HasDevice(status_data) ==
    IF status_data.kind = "dict"
    THEN "device" \in DOMAIN status_data.val
    ELSE "device" \in Range(status_data.val)

\* the body of the try block of validate_input
Probe(host, r) ==
    IF r.kind = "timeout" THEN Raise("TimeoutError")
    ELSE IF r.kind = "client_error" THEN Raise("ClientError")
    ELSE IF r.kind # "ok" THEN Raise("CannotConnect")
    ELSE IF r.body.kind = "other" THEN Raise("TypeError")
    ELSE IF ~HasDevice(r.body) THEN Raise("InvalidDevice")
    ELSE IF r.body.kind # "dict" THEN Raise("AttributeError")
    ELSE Return([title |-> Get(r.body.val, "device", "HomeBrainz Clock"),
                 host |-> host,
                 mac_address |-> Get(r.body.val, "mac_address", "")])

\* validate_input: both except clauses raise CannotConnect
validate_input(input, r) ==
    LET result == Probe(StripHost(input), r)
    IN IF result.raised = None THEN result ELSE Raise("CannotConnect")

\* errors["base"] for an exception of validate_input
BaseError(exception) ==
    IF exception = "CannotConnect" THEN "cannot_connect"
    ELSE IF exception = "InvalidDevice" THEN "invalid_device"
    ELSE "unknown"

ShowForm(errors, requests) == [type |-> "form", errors |-> errors, requests |-> requests]

\* the request validate_input issues
ProbeRequest(input) == [method |-> "GET", host |-> StripHost(input), path |-> "/status"]

\* async_step_user(user_input) with the device answering r
async_step_user(input, r) ==
    /\ \E result \in {validate_input(input, r)} :
        IF result.raised # None
        THEN /\ flow' = ShowForm([base |-> BaseError(result.raised[1])],
                                 <<ProbeRequest(input)>>)
             /\ entries' = entries
        ELSE LET info == result.value
                 unique_id == IF info.mac_address # "" THEN info.mac_address ELSE info.host
             IN IF unique_id \in entries
                THEN /\ flow' = [type |-> "abort", reason |-> "already_configured",
                                 requests |-> <<ProbeRequest(input)>>]
                     /\ entries' = entries
                ELSE /\ flow' = [type |-> "create_entry", title |-> info.title,
                                 data |-> [host |-> info.host],
                                 requests |-> <<ProbeRequest(input)>>]
                     /\ entries' = entries \cup {unique_id}
    /\ Quiet
    /\ ret' = Returned("async_step_user", flow'.type)
    /\ UNCHANGED <<heap_vars, task_vars, hass_vars, chan_vars, life, lib_closed_attr, conn_vars,
                   data, poll, posts>>

\* async_step_user(None): the empty form
StepUserForm ==
    /\ flow' = ShowForm(EmptyDict, <<>>)
    /\ entries' = entries
    /\ Quiet
    /\ ret' = Returned("async_step_user", "form")
    /\ UNCHANGED <<heap_vars, task_vars, hass_vars, chan_vars, life, lib_closed_attr, conn_vars,
                   data, poll, posts>>

\* the user submits the form
StepUser == \E input \in HostInputs, r \in ProbeResponses : async_step_user(input, r)

\* ----------------------------------------------------- Snapshots as objects
\* The writers of coordinator.data at the grain of Python objects. heap[id] is
\* the content of object id: a Snapshot dict holds references to its section
\* objects, a section dict or list holds its values. A dict display, a decoded
\* payload and deepcopy create objects, an item assignment changes the object
\* it is applied to, and async_set_updated_data makes root refer to its
\* argument.
Ref(id) == [ref |-> id]

\* a new object with the content obj; its id is the new length of the heap
Alloc(h, obj) == Append(h, [snapshot |-> FALSE, val |-> obj])

\* the dict handed to async_set_updated_data, with references to its sections
AllocSnapshot(h, sensors, status, screens) ==
    Append(h, [snapshot |-> TRUE,
               val |-> [sensors |-> Ref(sensors), status |-> Ref(status),
                        screens |-> Ref(screens)]])

\* x[k] = v
Store(h, id, k, v) == [h EXCEPT ![id].val = Put(@, k, v)]

\* deepcopy of a section object
CopySection(h, r) == Alloc(h, h[r.ref].val)

\* the Snapshot value held by the Snapshot object id
Value(h, id) ==
    IF id = 0 THEN NoData ELSE [k \in DOMAIN h[id].val |-> h[h[id].val[k].ref].val]

\* deepcopy(existing) for the Snapshot object id: copies of the three sections
\* and of the dict that refers to them (the last object of the result)
DeepCopy(h, id) ==
    LET h1 == CopySection(h, h[id].val.sensors)
        h2 == CopySection(h1, h[id].val.status)
        h3 == CopySection(h2, h[id].val.screens)
    IN AllocSnapshot(h3, Len(h1), Len(h2), Len(h3))

Installed(h) == [heap |-> h, root |-> Len(h)]

\* the sensor_update branch: the payload is the new sensors object, status
\* and screens are deep copies, the timestamp is stored into the copy
ObjSensorUpdate(h, id, f) ==
    LET raw == AsDict(f.data)
        h1 == Alloc(h, IF f.sensors_available # None
                       THEN SetDefault(raw, "sensors_available", f.sensors_available[1])
                       ELSE raw)
        h2 == CopySection(h1, h[id].val.status)
        h3 == CopySection(h2, h[id].val.screens)
        h4 == IF f.timestamp # None
              THEN Store(h3, Len(h2), "last_sensor_update", f.timestamp[1])
              ELSE h3
    IN Installed(AllocSnapshot(h4, Len(h1), Len(h2), Len(h3)))

\* the status_update branch: the payload is the new status object
ObjStatusUpdate(h, id, f) ==
    LET payload == AsDict(f.data)
        h1 == Alloc(h, IF f.timestamp # None
                       THEN SetDefault(payload, "last_status_update", f.timestamp[1])
                       ELSE payload)
        h2 == CopySection(h1, h[id].val.sensors)
        h3 == CopySection(h2, h[id].val.screens)
    IN Installed(AllocSnapshot(h3, Len(h2), Len(h1), Len(h3)))

\* the reply to another command: three deep copies, the payload merged into
\* the copy of the status
ObjReply(h, id, f) ==
    LET h1 == CopySection(h, h[id].val.sensors)
        h2 == CopySection(h1, h[id].val.status)
        h3 == CopySection(h2, h[id].val.screens)
        h4 == [h3 EXCEPT ![Len(h2)].val = Update(@, AsDict(f.data))]
    IN Installed(AllocSnapshot(h4, Len(h1), Len(h2), Len(h3)))

\* _async_update_data: the decoded bodies are the new sensors and status
\* objects; screens is the list of the answer, else the list object the
\* current Snapshot refers to (an empty list before the first Snapshot)
ObjPoll(h, id, sensor_data, status_data, r) ==
    LET h1 == Alloc(h, AsDict(sensor_data))
        h2 == Alloc(h1, AsDict(status_data))
        fromDevice == /\ r.kind = "ok" /\ r.body.kind = "dict"
                      /\ Get(r.body.val, "screens", JOther).kind = "list"
        h3 == IF fromDevice THEN Alloc(h2, r.body.val.screens.val)
              ELSE IF id = 0 THEN Alloc(h2, <<>>)
              ELSE h2
        screens == IF fromDevice \/ id = 0 THEN Len(h3) ELSE h[id].val.screens.ref
    IN Installed(AllocSnapshot(h3, Len(h1), Len(h2), screens))

ObjSetScreensInPlace(h, id, new_screens) ==
    LET h1 == Alloc(h, new_screens)
    IN [heap |-> Store(h1, id, "screens", Ref(Len(h1))), root |-> id]

\* _set_enabled after the POST: new_data = deepcopy(existing);
\* new_data["screens"] = new_screens
ObjSetScreens(h, id, new_screens) ==
    LET h1 == DeepCopy(h, id)
        h2 == Alloc(h1, new_screens)
    IN [heap |-> Store(h2, Len(h1), "screens", Ref(Len(h2))), root |-> Len(h1)]

\* async_set_native_value: new_data = deepcopy(existing);
\* new_data.setdefault("status", {})["brightness"] = brightness
ObjSetBrightness(h, id, brightness) ==
    LET h1 == DeepCopy(h, id)
    IN [heap |-> Store(h1, h1[Len(h1)].val.status.ref, "brightness", brightness),
        root |-> Len(h1)]

\* objects a run may create
MaxObjects == 14

ObjFrames ==
    {Frame(Some("sensor_update"), None, FALSE, JDict([bme280 |-> 1]), Some(1), Some(1)),
     Frame(Some("status_update"), None, FALSE, JDict([brightness |-> 7]), Some(1), None),
     Frame(None, Some("set_brightness"), TRUE, JDict([brightness |-> 7]), None, None)}

\* the write w of operation op replaces coordinator.data
ObjWrite(op, w) ==
    /\ Len(w.heap) <= MaxObjects
    /\ heap' = w.heap
    /\ root' = w.root
    /\ data' = Value(w.heap, w.root)
    /\ Quiet
    /\ ret' = Returned(op, "updated")
    /\ UNCHANGED <<flow_vars, task_vars, hass_vars, chan_vars, life, lib_closed_attr, conn_vars, poll, posts>>

\* a frame that writes is dispatched
ObjDispatch ==
    /\ root # 0
    /\ \E f \in ObjFrames :
        ObjWrite("object_dispatch",
                 IF f.type = Some("sensor_update") THEN ObjSensorUpdate(heap, root, f)
                 ELSE IF f.type = Some("status_update") THEN ObjStatusUpdate(heap, root, f)
                 ELSE ObjReply(heap, root, f))

\* a poll tick returns
ObjPollTick ==
    \E r \in ShapeScreenResponses :
        ObjWrite("object_poll",
                 ObjPoll(heap, root, JDict([bme280 |-> 1]), JDict([brightness |-> 7]), r))

\* a screen toggle is acknowledged
ObjToggle ==
    /\ root # 0
    /\ \E screen_id \in Switches, enabled \in BOOLEAN :
        \E new_screens \in {NewScreens(Value(heap, root), screen_id, enabled)} :
            /\ ~Refused(new_screens)
            /\ new_screens # get_enabled_screens(Value(heap, root))
            /\ ObjWrite("object_toggle", ObjSetScreens(heap, root, new_screens))

\* the brightness entity is set
ObjBrightness ==
    /\ root # 0
    /\ \E value \in BrightnessInputs :
        ObjWrite("object_brightness", ObjSetBrightness(heap, root, Clamp(value)))

\* ---------------------------------------------------------------- Handler task
\* async_start_websocket and async_stop_websocket at the grain of their awaits:
\* a stop cancels the task and waits for it to end, and calls made meanwhile
\* find the task cancelled and not yet done.
NoStops == [waiting |-> 0, ready |-> 0]

\* the tasks _websocket_task referred to, after it refers to a new one
Replaced(task) == IF task = "none" THEN old_tasks ELSE old_tasks \cup {task}

\* async_start_websocket, called on the coordinator of an entry that is set up
async_start_websocket ==
    /\ Loaded
    /\ websocket_task' = StartTask(websocket_task)
    /\ old_tasks' = IF Creates(websocket_task) THEN Replaced(websocket_task) ELSE old_tasks
    /\ Quiet
    /\ ret' = Returned("async_start_websocket", "None")
    /\ UNCHANGED <<flow_vars, heap_vars, hass_vars, stops, chan_vars, life, lib_closed_attr,
                   retry_count, websocket_connected, websocket, sock, delay, data, poll, posts>>

\* async_stop_websocket up to its await: cancel() of the task; a task that is
\* done, or no task, lets the call go on at once
StopBegin ==
    /\ Loaded
    /\ stops.waiting + stops.ready < MaxStops
    /\ websocket_task' = IF Live(websocket_task) THEN "cancelling" ELSE websocket_task
    /\ stops' = IF Live(websocket_task)
                THEN [stops EXCEPT !.waiting = @ + 1]
                ELSE [stops EXCEPT !.ready = @ + 1]
    /\ Quiet
    /\ ret' = Returned("cancel", "None")
    /\ UNCHANGED <<flow_vars, heap_vars, hass_vars, old_tasks, chan_vars, life, lib_closed_attr,
                   retry_count, websocket_connected, websocket, sock, delay, data, poll, posts>>

\* the handler takes the CancelledError at its await and ends; the calls that
\* wait for it can go on
HandlerCancelled ==
    /\ websocket_task = "cancelling"
    /\ websocket_task' = Cancelled(websocket_task)
    /\ sock' = Left(sock)
    /\ delay' = 0
    /\ inbox' = <<>>
    /\ reply' = <<>>
    /\ stops' = [waiting |-> 0, ready |-> stops.ready + stops.waiting]
    /\ Quiet
    /\ ret' = Returned("cancelled", "None")
    /\ UNCHANGED <<flow_vars, heap_vars, hass_vars, old_tasks, life, lib_closed_attr,
                   retry_count, websocket_connected, websocket, data, poll, posts>>

\* async_stop_websocket after its await: `if self._websocket: close, = None`
StopEnd ==
    /\ stops.ready > 0
    /\ stops' = [stops EXCEPT !.ready = @ - 1]
    /\ sock' = IF websocket THEN Left(sock) ELSE sock
    /\ websocket' = FALSE
    /\ Quiet
    /\ ret' = Returned("async_stop_websocket", "None")
    /\ UNCHANGED <<flow_vars, heap_vars, hass_vars, old_tasks, chan_vars, life, lib_closed_attr,
                   websocket_task, retry_count, websocket_connected, delay, data, poll, posts>>

\* ------------------------------------------------------------------- Registry
\* hass.data[DOMAIN], the dict of the coordinators by entry id, with
\* async_setup_entry and async_unload_entry of every config entry at the grain
\* of their awaits. Entry e manages device e.
\* the config entries of the domain
Entries == 1..NumEntries

\* DOMAIN
HOMEBRAINZ == "homebrainz"

\* an entry with its coordinator: where its setup or unload stands, whether the
\* coordinator holds a Snapshot, whether its handler task was started
Entry(pc, fetched, started) == [pc |-> pc, fetched |-> fetched, started |-> started]

SetupStartsBeforeRefresh(ok) ==
    IF ok THEN Entry("forwarding", TRUE, TRUE) ELSE Entry("not_ready", FALSE, TRUE)

\* async_setup_entry up to its await of async_forward_entry_setups: a first
\* refresh that fails raises ConfigEntryNotReady and ends the setup
SetupUntilForward(ok) ==
    IF ok THEN Entry("forwarding", TRUE, TRUE) ELSE Entry("not_ready", FALSE, FALSE)

\* the first refresh of a new coordinator for entry_id ends
SetupRefresh(entry_id, ok) ==
    /\ setups[entry_id].pc \in {"not_loaded", "not_ready"}
    /\ \E e \in {SetupUntilForward(ok)} :
        /\ setups' = [setups EXCEPT ![entry_id] = e]
        /\ registry' = IF e.pc = "forwarding" THEN Append(registry, entry_id) ELSE registry
    /\ Quiet
    /\ ret' = Returned("async_setup_entry", IF ok THEN "None" ELSE "ConfigEntryNotReady")
    /\ UNCHANGED <<flow_vars, heap_vars, task_vars, services, chan_vars, life, lib_closed_attr,
                   conn_vars, data, poll, posts>>

\* `if len(hass.data[DOMAIN]) == 1: await async_setup_services(hass)`
RegistersServices(reg) == Len(reg) = 1

\* async_setup_entry after the platforms are set up
SetupFinish(entry_id) ==
    /\ setups[entry_id].pc = "forwarding"
    /\ setups' = [setups EXCEPT ![entry_id].pc = "loaded"]
    /\ services' = IF RegistersServices(registry) THEN TRUE ELSE services
    /\ Quiet
    /\ ret' = Returned("async_setup_entry", "True")
    /\ UNCHANGED <<flow_vars, heap_vars, task_vars, registry, chan_vars, life, lib_closed_attr,
                   conn_vars, data, poll, posts>>

\* async_unload_entry up to its await of async_unload_platforms: the handler
\* of the coordinator is stopped
UnloadBegin(entry_id) ==
    /\ setups[entry_id].pc = "loaded"
    /\ setups' = [setups EXCEPT ![entry_id] = Entry("unloading", @.fetched, FALSE)]
    /\ Quiet
    /\ ret' = Returned("async_unload_entry", "None")
    /\ UNCHANGED <<flow_vars, heap_vars, task_vars, registry, services, chan_vars, life,
                   lib_closed_attr, conn_vars, data, poll, posts>>

\* hass.data[DOMAIN].pop(entry.entry_id)
Pop(reg, entry_id) == SelectSeq(reg, LAMBDA id : id # entry_id)

\* async_unload_entry after the platforms answered: the entry is popped if
\* they were unloaded, and the services go with the last entry
UnloadFinish(entry_id, unload_ok) ==
    /\ setups[entry_id].pc = "unloading"
    /\ \E reg \in {IF unload_ok THEN Pop(registry, entry_id) ELSE registry} :
        /\ registry' = reg
        /\ services' = IF reg = <<>> THEN FALSE ELSE services
    /\ setups' = [setups EXCEPT ![entry_id] =
                    IF unload_ok THEN Entry("not_loaded", FALSE, FALSE)
                    ELSE Entry("failed_unload", @.fetched, FALSE)]
    /\ Quiet
    /\ ret' = Returned("async_unload_entry", IF unload_ok THEN "True" ELSE "False")
    /\ UNCHANGED <<flow_vars, heap_vars, task_vars, chan_vars, life, lib_closed_attr, conn_vars,
                   data, poll, posts>>

\* the setup and the unload of any entry
async_setup_entry ==
    \E entry_id \in Entries :
        \/ \E ok \in BOOLEAN : SetupRefresh(entry_id, ok)
        \/ SetupFinish(entry_id)

async_unload_entry ==
    \E entry_id \in Entries :
        \/ UnloadBegin(entry_id)
        \/ \E unload_ok \in BOOLEAN : UnloadFinish(entry_id, unload_ok)

\* the device registry: the device of each entry, known by its identifier
\* (DOMAIN, mac or host), the device 0 of another integration, and no device
\* under any other id
Device(device_id) ==
    IF device_id \in Entries THEN [identifiers |-> {<<HOMEBRAINZ, device_id>>}]
    ELSE IF device_id = 0 THEN [identifiers |-> {<<"other", device_id>>}]
    ELSE None

\* the device ids service calls name
DeviceIds == 0..(NumEntries + 1)

\* _get_coordinator_for_device: the entry id of the coordinator it returns
get_coordinator_for_device(reg, device_id) ==
    LET device == Device(device_id) IN
    IF device = None THEN None
    ELSE LET found == {i \in 1..Len(reg) :
                         \E identifier \in device.identifiers : identifier[1] = HOMEBRAINZ}
         IN IF found = {} THEN None
            ELSE Some(reg[CHOOSE i \in found : \A j \in found : i <= j])

\* the services async_setup_services registers
ServiceNames == {"set_brightness", "display_text", "restart_device", "set_screen_rotation"}

\* a call of one of the services for device_id: the coordinator that gets it
CallService(service, device_id) ==
    /\ services
    /\ Quiet
    /\ ret' = [op |-> "service", val |-> service, device |-> device_id,
               coordinator |-> get_coordinator_for_device(registry, device_id)]
    /\ UNCHANGED <<aux_vars, chan_vars, life, lib_closed_attr, conn_vars, data, poll, posts>>

ServiceCall == \E service \in ServiceNames, device_id \in DeviceIds : CallService(service, device_id)

\* ------------------------------------------------------------------ Services
\* one comma-separated part of a `screens` string: a name, "" if the part holds
\* nothing but blanks, and whether blanks surround it
Part(name, blanks) == [name |-> name, blanks |-> blanks]

\* the `screens` field of a set_screen_rotation call: a list, or a string given
\* by its comma-separated parts
RotationInputs ==
    {[kind |-> "list", val |-> l] : l \in {<<"temp">>, <<"temp", "clock">>, <<>>}}
    \cup {[kind |-> "str", val |-> s] :
            s \in {<<Part("iaq", TRUE), Part("", FALSE), Part("clock", FALSE)>>,
                   <<Part("", TRUE)>>}}

\* [screen.strip() for screen in screens.split(",") if screen.strip()]
SplitScreens(s) ==
    SelectSeq([i \in 1..Len(s) |-> s[i].name], LAMBDA screen : screen # "")

\* the list the service works with
RequestedScreens(input) == IF input.kind = "str" THEN SplitScreens(input.val) ELSE input.val

\* set_screen_rotation_service for the device of this coordinator, its POST
\* /display/screens ending with kind
set_screen_rotation_service(input, kind) ==
    /\ life = "loaded"
    /\ kind \in PostAnswers
    /\ \E screens \in {RequestedScreens(input)} :
        IF screens = <<>>
        THEN /\ posted' = <<>>
             /\ ret' = Returned("set_screen_rotation", "no_screens")
        ELSE /\ posted' = <<[screens |-> screens]>>
             /\ ret' = Returned("set_screen_rotation", kind)
    /\ sent' = <<>>
    /\ UNCHANGED <<aux_vars, chan_vars, life, lib_closed_attr, conn_vars, data, poll, posts>>

\* a set_screen_rotation call
SetScreenRotation ==
    \E input \in RotationInputs : \E kind \in PostAnswers : set_screen_rotation_service(input, kind)

\* ------------------------------------------------------------- Specification
Init ==
    /\ life = "setup"
    /\ lib_closed_attr \in BOOLEAN
    /\ websocket_task = "none"
    /\ retry_count = 0
    /\ websocket_connected = FALSE
    /\ websocket = FALSE
    /\ sock = "none"
    /\ delay = 0
    /\ data = NoData
    /\ poll = Idle
    /\ posts = {}
    /\ inbox = <<>>
    /\ reply = <<>>
    /\ sent = <<>>
    /\ posted = <<>>
    /\ flow = NoFlow
    /\ entries = {}
    /\ heap = <<>>
    /\ root = 0
    /\ old_tasks = {}
    /\ stops = NoStops
    /\ registry = <<>>
    /\ services = FALSE
    /\ setups = [entry_id \in Entries |-> Entry("not_loaded", FALSE, FALSE)]
    /\ ret = Returned("init", "None")

\* the coordinator on a websockets library that exposes .closed (no step of the
\* specifications that start here closes a connection)
InitLegacy == Init /\ lib_closed_attr = TRUE

\* The connection manager and the command path under every failure the transport
\* can produce, with a device that sends few different payloads.
LinkFrames ==
    {Frame(Some("ping"), None, FALSE, JOther, None, None),
     Frame(Some("status_update"), None, FALSE, JDict([brightness |-> 7]), None, None)}
LinkSensorResponses == {Response("ok", JDict([bme280 |-> 1])), Response("client_error", JOther)}
LinkStatusResponses == {Response("ok", JDict([brightness |-> 7]))}
LinkScreenResponses == {Response("ok", JDict([screens |-> JList(<<"clock">>)]))}

NextLink ==
    \/ PollSensors(LinkSensorResponses)
    \/ PollStatus(LinkStatusResponses)
    \/ PollScreens(LinkScreenResponses)
    \/ ConnectOk
    \/ ConnectFail
    \/ Bootstrap
    \/ Receive(LinkFrames)
    \/ ReceiveFail
    \/ ReceiveClosed
    \/ SleepDone
    \/ async_stop_websocket
    \/ SendDeviceCommand
    \/ SetBrightness({20})

SpecLink == Init /\ [][NextLink]_vars

\* The state store under every payload the device can send, with every writer
\* of the sensors, status and ota sections, on a link whose connection attempts
\* succeed.
StoreSensorResponses ==
    {Response("ok", JDict([bme280 |-> 1])), Response("ok", JOther),
     Response("http_error", JOther)}
StoreStatusResponses ==
    {Response("ok", JDict([brightness |-> 7])), Response("ok", JOther),
     Response("client_error", JOther)}
StoreScreenResponses ==
    {Response("ok", JDict([screens |-> JList(<<"clock">>)])),
     Response("ok", JDict([screens |-> JList(<<"temp", "clock">>)])),
     Response("client_error", JOther), Response("timeout", JOther)}

NextStore ==
    \/ PollSensors(StoreSensorResponses)
    \/ PollStatus(StoreStatusResponses)
    \/ PollScreens(StoreScreenResponses)
    \/ ConnectOk
    \/ Bootstrap
    \/ Receive(Frames \cup Garbage)
    \/ SetBrightness(BrightnessInputs)
    \/ UpdateOta

SpecStore == InitLegacy /\ [][NextStore]_vars

\* The screen rotation under every list the device can report and every toggle,
\* with a device that sends few different sensor and status payloads.
ScreensFrames ==
    {Frame(Some("sensor_update"), None, FALSE, JDict([bme280 |-> 1]), None, None),
     Frame(Some("status_update"), None, FALSE, JDict([brightness |-> 7]), None, None),
     Frame(None, Some("set_brightness"), TRUE, JDict([brightness |-> 7]), None, None)}

NextScreens ==
    \/ PollSensors(LinkSensorResponses)
    \/ PollStatus(LinkStatusResponses)
    \/ PollScreens(ScreenResponses)
    \/ ConnectOk
    \/ Bootstrap
    \/ Receive(ScreensFrames)
    \/ SetBrightness({20})
    \/ ToggleBegin
    \/ ToggleEnd
    \/ UpdateOta

SpecScreens == InitLegacy /\ [][NextScreens]_vars

\* The dispatcher under every ping, every status push, every command reply
\* and every frame it ignores, with a sensor push and the brightness entity
\* making the sections they find differ.
DispatchFrames ==
    {f \in Frames : f.type \in {Some("ping"), Some("status_update")} \/ f.type = None}
    \cup {Frame(Some("sensor_update"), None, FALSE, JDict([bme280 |-> 1]), Some(1), None)}

NextDispatch ==
    \/ PollSensors(StoreSensorResponses)
    \/ PollStatus(StoreStatusResponses)
    \/ PollScreens(LinkScreenResponses)
    \/ ConnectOk
    \/ Bootstrap
    \/ Receive(DispatchFrames)
    \/ SetBrightness(BrightnessInputs)

SpecDispatch == Init /\ [][NextDispatch]_vars

\* The receive loop of one connection at the grain of its awaits, with a
\* device that sends ahead of the loop and commands sent meanwhile.
LoopMessages ==
    {Frame(Some("ping"), None, FALSE, JOther, None, None),
     Frame(Some("status_update"), None, FALSE, JDict([brightness |-> 7]), None, None),
     Frame(Some("sensor_update"), None, FALSE, JDict([bme280 |-> 1]), None, None),
     InvalidJson}

NextLoop ==
    \/ PollSensors(LinkSensorResponses)
    \/ PollStatus(LinkStatusResponses)
    \/ PollScreens(LinkScreenResponses)
    \/ ConnectOk
    \/ Bootstrap
    \/ Arrive(LoopMessages)
    \/ ReadFrame
    \/ SendReply
    \/ SendDeviceCommand

SpecLoop == Init /\ [][NextLoop]_vars

\* The coordinator with async_stop_websocket called at any time, any number of
\* times, next to the call async_unload_entry makes.
NextApi ==
    \/ NextLink
    \/ StopCall

SpecApi == Init /\ [][NextApi]_vars

\* The fallback poll next to a connected channel whose every frame is a
\* sensor push with a timestamp: each dispatch writes the sensors section and
\* stamps the status section.
FreshFrames ==
    {Frame(Some("sensor_update"), None, FALSE, b, ts, None) :
        b \in {JDict([bme280 |-> 1]), JDict([ens160 |-> 2, sensors_available |-> 0])},
        ts \in Timestamps \ {None}}

NextFresh ==
    \/ PollSensors(StoreSensorResponses)
    \/ PollStatus(StoreStatusResponses)
    \/ PollScreens(LinkScreenResponses)
    \/ ConnectOk
    \/ Bootstrap
    \/ Receive(FreshFrames)

SpecFresh == Init /\ [][NextFresh]_vars

\* The dispatcher under every sensor push, with a status push, the poll and
\* the brightness entity making the status they find differ.
SensorFrames ==
    {f \in Frames : f.type = Some("sensor_update")}
    \cup {Frame(Some("status_update"), None, FALSE, JDict([last_status_update |-> 0]),
                None, None)}

NextSensors ==
    \/ PollSensors(StoreSensorResponses)
    \/ PollStatus(StoreStatusResponses)
    \/ PollScreens(LinkScreenResponses)
    \/ ConnectOk
    \/ Bootstrap
    \/ Receive(SensorFrames)
    \/ SetBrightness(BrightnessInputs)

SpecSensors == Init /\ [][NextSensors]_vars

\* The config flow, opened and submitted any number of times with every
\* answer of the probed device.
NextFlow ==
    \/ StepUserForm
    \/ StepUser

SpecFlow == Init /\ [][NextFlow]_vars

\* The state store under every payload that is not a mapping, in pushes,
\* replies and poll answers, with every writer of the Snapshot.
NonMappingFrames ==
    {f \in Frames : /\ f.data.kind # "dict"
                    /\ \/ f.type \in {Some("sensor_update"), Some("status_update")}
                       \/ (f.type = None /\ f.command # None)}

ShapeFrames ==
    NonMappingFrames
    \cup {Frame(Some("sensor_update"), None, FALSE, JDict([bme280 |-> 1]), None, None),
          Frame(None, Some("get_status"), TRUE, JDict([brightness |-> 7]), None, None)}

NextShapes ==
    \/ PollSensors(StoreSensorResponses)
    \/ PollStatus(StoreStatusResponses)
    \/ PollScreens(ShapeScreenResponses)
    \/ ConnectOk
    \/ Bootstrap
    \/ Receive(ShapeFrames)
    \/ SetBrightness({20})
    \/ \E enabled \in BOOLEAN : set_enabled("temp", enabled)
    \/ ToggleEnd

SpecShapes == InitLegacy /\ [][NextShapes]_vars

\* The writers of the Snapshot at the grain of Python objects.
NextObjects ==
    \/ ObjPollTick
    \/ ObjDispatch
    \/ ObjToggle
    \/ ObjBrightness

SpecObjects == Init /\ [][NextObjects]_vars

\* The handler under every failure of connecting, receiving, dispatching and
\* sending, and stopped at any time.
NextHandler ==
    \/ NextApi
    \/ Receive(Garbage)

SpecHandler == Init /\ [][NextHandler]_vars

\* The command path on a library whose open/closed check can raise.
NextSend ==
    \/ NextLink
    \/ SendWithFailingCheck

SpecSend == Init /\ [][NextSend]_vars

\* The screen rotation changed through the switches and through the
\* set_screen_rotation service.
NextRotation ==
    \/ NextScreens
    \/ SetScreenRotation

SpecRotation == InitLegacy /\ [][NextRotation]_vars

\* The handler task under start and stop calls made at any time, a stop being
\* overtaken by other calls while it waits for the cancelled task.
NextTasks ==
    \/ PollSensors(LinkSensorResponses)
    \/ PollStatus(LinkStatusResponses)
    \/ PollScreens(LinkScreenResponses)
    \/ ConnectOk
    \/ ConnectFail
    \/ Bootstrap
    \/ Receive(LinkFrames)
    \/ ReceiveFail
    \/ ReceiveClosed
    \/ SleepDone
    \/ async_start_websocket
    \/ StopBegin
    \/ HandlerCancelled
    \/ StopEnd

SpecTasks == Init /\ [][NextTasks]_vars

\* The registry of coordinators and the services of the domain under setups
\* and unloads of every entry in any order, and service calls for every device.
NextHass ==
    \/ async_setup_entry
    \/ async_unload_entry
    \/ ServiceCall

SpecHass == Init /\ [][NextHass]_vars

\* The setup of the entries, with first refreshes that fail, next to the
\* coordinator of one of them and the frames its handler dispatches.
NextSetup ==
    \/ PollSensors(LinkSensorResponses)
    \/ PollStatus(LinkStatusResponses)
    \/ PollScreens(LinkScreenResponses)
    \/ ConnectOk
    \/ Bootstrap
    \/ Receive(LinkFrames)
    \/ ReceiveClosed
    \/ async_setup_entry
    \/ async_unload_entry

SpecSetup == Init /\ [][NextSetup]_vars

\* ================================================================ Properties
\* The Connection State of the spec is read off the coordinator as follows:
\* Connected is _websocket_connected; GivenUp is the handler having left its
\* loop through the retry ceiling.
GivenUp == websocket_task = "gave_up"

\* C1: a send_device_command call made while the coordinator is not connected
\* returns False, writes no frame to the transport and leaves the Snapshot as
\* it was.
C1_NotConnectedCommandFails ==
    [][(ret'.op = "send_device_command" /\ ~websocket_connected)
        => (ret'.val = "False" /\ sent' = <<>> /\ data' = data)]_vars

C1_Witness ==
    /\ ret = Returned("send_device_command", "False")
    /\ ~websocket_connected
    /\ sent = <<>>
    /\ data # NoData

\* C2: a send_device_command call made while connected whose frame is not
\* written returns False and leaves the coordinator not connected; it returns
\* True only if the frame was written.
C2_UnwrittenCommandFails ==
    [][(ret'.op = "send_device_command" /\ websocket_connected)
        => IF sent' = <<>>
           THEN ret'.val = "False" /\ ~websocket_connected'
           ELSE ret'.val = "True"]_vars

\* C3: once async_stop_websocket has returned the coordinator is disconnected,
\* whatever the stop interrupted: the handler task has finished and is in no
\* sleep, the transport is closed and its handle cleared, and a
\* send_device_command that follows returns False.
C3_StopDisconnects ==
    [][life' = "unloaded"
        => /\ ~websocket_connected'
           /\ ~websocket'
           /\ sock' # "open"
           /\ websocket_task' \in {"gave_up", "cancelled"}
           /\ delay' = 0
           /\ (ret'.op = "send_device_command" => ret'.val = "False")]_vars

\* C4: once the handler has given up it makes no further connection attempt,
\* the coordinator stays not connected, and while the entry is loaded the
\* fallback poll can still start a tick and replace the Snapshot.
C4_GivenUpIsFinal ==
    [][GivenUp
        => /\ GivenUp'
           /\ ~websocket_connected /\ ~websocket_connected'
           /\ sock' # "open"
           /\ (life = "loaded" /\ poll = Idle => ENABLED PollSensors(LinkSensorResponses))
           /\ (poll.pc = "status" => ENABLED PollStatus(LinkStatusResponses))
           /\ (poll.pc = "screens" => ENABLED PollScreens(LinkScreenResponses))]_vars

C4_Witness ==
    /\ GivenUp
    /\ life = "loaded"
    /\ ret = Returned("poll", "updated")
    /\ data # NoData

\* C5: a transport failure increments the attempt counter before the delay is
\* computed, the backoff of attempt n lasts min(10 * n, 60) seconds, attempts
\* 1..5 wait 10, 20, 30, 40, 50 seconds, and no wait of 60 seconds occurs.
C5_BackoffDelays ==
    [][/\ (websocket_task' = "backoff" /\ websocket_task # "backoff")
            => /\ retry_count' = retry_count + 1
               /\ delay' = Min(10 * retry_count', 60)
               /\ <<retry_count', delay'>> \in
                      {<<1, 10>>, <<2, 20>>, <<3, 30>>, <<4, 40>>, <<5, 50>>}
       /\ delay' # 60]_vars

C5_Witness == websocket_task = "backoff" /\ retry_count = 5 /\ delay = 50

\* C6: the handler gives up exactly when a transport failure raises the
\* attempt counter above 5: each of the failures 1..5 since the last successful
\* connect is followed by a backoff wait, the 6th ends the loop, and a
\* successful connect resets the counter to zero.
C6_GivesUpOnSixthFailure ==
    [][/\ (GivenUp' /\ ~GivenUp) => (retry_count = 5 /\ retry_count' = 6)
       /\ (retry_count' > retry_count)
            => /\ retry_count' = retry_count + 1
               /\ websocket_task \in {"connecting", "receiving"}
               /\ (retry_count' <= 5 => websocket_task' = "backoff")
               /\ (retry_count' > 5 => GivenUp')
       /\ (retry_count' < retry_count)
            => (retry_count' = 0 /\ websocket_task' = "bootstrap_status")
       /\ (websocket_task = "connecting" /\ websocket_task' = "bootstrap_status")
            => retry_count' = 0
       /\ (websocket_task' \in {"bootstrap_status", "bootstrap_sensors", "receiving"})
            => retry_count' = 0]_vars

C6_Witness == GivenUp /\ retry_count = 6 /\ ~websocket_connected

\* the sections of the Snapshot; a section is <<>> while the Snapshot lacks it
Sections == {"sensors", "status", "screens", "ota"}
Section(d, k) == IF k \in DOMAIN d THEN Some(d[k]) ELSE None

\* the sections a frame is meant to write
Targets(f) ==
    IF f.type = Some("sensor_update") THEN {"sensors", "status"}
    ELSE IF f.type = Some("status_update") THEN {"status"}
    ELSE IF f.type = Some("ping") THEN {}
    ELSE IF f.command = Some("get_sensors") THEN {"sensors"}
    ELSE IF f.command # None THEN {"status"}
    ELSE {}

\* C7: every dispatch of a frame and every poll tick leaves each section of the
\* Snapshot it does not target as it was; in particular an ota section and a
\* screens list present before are present and equal afterwards.
C7_UntargetedSectionsKept ==
    [][/\ \A f \in Frames : ReceiveFrame(f)
            => \A k \in Sections \ Targets(f) : Section(data', k) = Section(data, k)
       /\ ret'.op = "poll" => Section(data', "ota") = Section(data, "ota")]_vars

\* the keys a push names in the section it targets
NamedKeys(f) ==
    DOMAIN AsDict(f.data)
    \cup (IF f.type = Some("sensor_update") /\ f.sensors_available # None
          THEN {"sensors_available"} ELSE {})
    \cup (IF f.type = Some("status_update") /\ f.timestamp # None
          THEN {"last_status_update"} ELSE {})

Kept(old, new, keys) == \A k \in keys : k \in DOMAIN new /\ new[k] = old[k]

\* C8: after a sensor_update or status_update push, every key that was present
\* in the targeted section and is not named in the push keeps its value.
C8_UnnamedKeysSurvive ==
    [][\A f \in Frames : ReceiveFrame(f)
        => /\ f.type = Some("sensor_update")
                => Kept(Get(data, "sensors", EmptyDict), Get(data', "sensors", EmptyDict),
                        DOMAIN Get(data, "sensors", EmptyDict) \ NamedKeys(f))
           /\ f.type = Some("status_update")
                => Kept(Get(data, "status", EmptyDict), Get(data', "status", EmptyDict),
                        DOMAIN Get(data, "status", EmptyDict) \ NamedKeys(f))]_vars

\* C9: switching off a screen whose removal would leave no enabled screen is
\* refused: no POST /display/screens is issued or left in flight and the
\* Snapshot is unchanged.
C9_LastScreenToggleRefused ==
    [][\A screen_id \in Switches :
        (set_enabled(screen_id, FALSE)
         /\ Range(get_enabled_screens(data)) \ {screen_id} = {})
        => /\ posted' = <<>>
           /\ posts' = posts
           /\ data' = data
           /\ ret' = Returned("set_enabled", "refused")]_vars

C9_Witness ==
    /\ ret = Returned("set_enabled", "refused")
    /\ get_enabled_screens(data) = <<"clock">>
    /\ posted = <<>>
    /\ posts = {}

\* C10: once the screens list of the Snapshot is non-empty, no step makes it
\* empty again.
C10_ScreensStayNonEmpty ==
    [][get_enabled_screens(data) # <<>> => get_enabled_screens(data') # <<>>]_vars

\* C11: a screen toggle writes its new list into the Snapshot only in the step
\* in which the device answers the POST with status 200; on another status, a
\* transport error or a timeout, and while the POST is in flight, the Snapshot
\* is left as it was.
C11_ToggleCommitsAfterAck ==
    [][/\ \A new_screens \in posts, kind \in PostAnswers :
            ToggleAnswer(new_screens, kind)
            => IF kind = "ok"
               THEN get_enabled_screens(data') = new_screens
               ELSE data' = data
       /\ \A screen_id \in Switches, enabled \in BOOLEAN :
            set_enabled(screen_id, enabled) => data' = data]_vars

C11_Witness ==
    /\ ret = Returned("set_enabled", "failed")
    /\ get_enabled_screens(data) = <<"clock">>
    /\ posts = {}

Pings == {f \in Frames : f.type = Some("ping")}
Pong(f) == [type |-> "pong", timestamp |-> f.timestamp]
Answers == {"unused", "ok", "transport_error"}

\* C12 as stated: every dispatched ping leaves the Snapshot unchanged and has
\* exactly one pong with the ping's timestamp written to the transport.
C12_PingAnsweredOnce ==
    [][\A f \in Pings : ReceiveFrame(f) => (data' = data /\ sent' = <<Pong(f)>>)]_vars

\* C12: every dispatched ping leaves the Snapshot unchanged and notifies no
\* observer; at most one frame is written, the pong with the ping's timestamp,
\* and it is written whenever the coordinator is connected and the transport
\* accepts the write.
C12_PingAnsweredIfWritable ==
    [][\A f \in Pings, answer \in Answers :
        Dispatch(f, answer)
        => /\ data' = data
           /\ ret'.val = "None"
           /\ sent' \in {<<>>, <<Pong(f)>>}
           /\ (websocket_connected /\ answer = "ok") => sent' = <<Pong(f)>>]_vars

C12_Witness ==
    /\ ret = Returned("receive", "None")
    /\ sent = <<[type |-> "pong", timestamp |-> Some(1)]>>
    /\ data # NoData

\* status_update frames with a mapping payload and a timestamp
StampedStatusUpdates ==
    {f \in Frames : f.type = Some("status_update") /\ f.data.kind = "dict"
                     /\ f.timestamp # None}
SensorsOf(d) == Get(Existing(d), "sensors", EmptyDict)
StatusOf(d) == Get(Existing(d), "status", EmptyDict)

\* C13 as stated: after a status_update with mapping payload d and timestamp
\* t the status holds every key of d with d's value and last_status_update is
\* t; with an empty sensors section a get_sensors command goes out on the
\* channel.
C13_StatusUpdateStamped ==
    [][\A f \in StampedStatusUpdates, answer \in Answers :
        Dispatch(f, answer)
        => /\ \A k \in DOMAIN f.data.val :
                k \in DOMAIN StatusOf(data') /\ StatusOf(data')[k] = f.data.val[k]
           /\ Get(StatusOf(data'), "last_status_update", None) = f.timestamp[1]
           /\ (SensorsOf(data') = EmptyDict /\ websocket_connected /\ answer = "ok")
                => sent' = <<[command |-> "get_sensors"]>>]_vars

\* C13: after a status_update with mapping payload d and timestamp t the
\* status holds every key of d with d's value, and last_status_update is t
\* unless d itself names last_status_update (d's value is kept); with an empty
\* sensors section a get_sensors command goes out on the channel, and with a
\* non-empty one nothing is sent.
C13_StatusUpdateStampedUnlessNamed ==
    [][\A f \in StampedStatusUpdates, answer \in Answers :
        Dispatch(f, answer)
        => /\ \A k \in DOMAIN f.data.val :
                k \in DOMAIN StatusOf(data') /\ StatusOf(data')[k] = f.data.val[k]
           /\ "last_status_update" \in DOMAIN StatusOf(data')
           /\ "last_status_update" \notin DOMAIN f.data.val
                => StatusOf(data').last_status_update = f.timestamp[1]
           /\ (SensorsOf(data') = EmptyDict /\ websocket_connected /\ answer = "ok")
                => sent' = <<[command |-> "get_sensors"]>>
           /\ SensorsOf(data') # EmptyDict => sent' = <<>>]_vars

C13_Witness ==
    /\ ret = Returned("receive", "updated")
    /\ StatusOf(data) = [brightness |-> 7, last_status_update |-> 1]
    /\ SensorsOf(data) = EmptyDict
    /\ sent = <<[command |-> "get_sensors"]>>

\* the order of the steps of a connection
BootstrapOrder ==
    /\ (ret'.op = "connect" /\ ret'.val = "ok")
        => (retry_count' = 0 /\ websocket_connected' /\ websocket_task' = "bootstrap_status")
    /\ (websocket_task' = "bootstrap_status" /\ websocket_task # "bootstrap_status")
        => (ret'.op = "connect" /\ ret'.val = "ok")
    /\ (websocket_task' = "bootstrap_sensors" /\ websocket_task # "bootstrap_sensors")
        => (websocket_task = "bootstrap_status" /\ ret'.op = "bootstrap")
    /\ (websocket_task' = "receiving" /\ websocket_task \notin {"receiving", "dispatching"})
        => (websocket_task = "bootstrap_sensors" /\ ret'.op = "bootstrap")
    /\ ret'.op \in {"receive", "read", "reply"} => websocket_task = "receiving"

\* C14 as stated: every successful connect resets the attempt counter to zero,
\* and get_status and then get_sensors are written to the transport before
\* the first frame of the connection is dispatched.
C14_BootstrapWritten ==
    [][/\ BootstrapOrder
       /\ ret'.op = "bootstrap"
            => sent' = <<[command |-> IF websocket_task = "bootstrap_status"
                                      THEN "get_status" ELSE "get_sensors"]>>]_vars

\* C14: every successful connect resets the attempt counter to zero, and
\* before the first frame of the connection is dispatched get_status and then
\* get_sensors are handed to the transport, in that order; each is written
\* when the coordinator is still connected and the transport accepts the
\* write, and nothing else is written.
C14_BootstrapSentInOrder ==
    [][/\ BootstrapOrder
       /\ \A answer \in Answers :
            BootstrapSend(answer)
            => LET cmd == [command |-> IF websocket_task = "bootstrap_status"
                                       THEN "get_status" ELSE "get_sensors"]
               IN /\ sent' \in {<<>>, <<cmd>>}
                  /\ (websocket_connected /\ answer = "ok") => sent' = <<cmd>>]_vars

C14_Witness ==
    /\ websocket_task = "receiving"
    /\ ret.op = "bootstrap"
    /\ sent = <<[command |-> "get_sensors"]>>
    /\ retry_count = 0
    /\ websocket_connected

\* C15: the receive loop reads the messages of a connection oldest first and
\* one at a time: a message is read only when no dispatch is in progress, it
\* is the oldest unread one, and the Snapshot after the read is the dispatch
\* of that message applied to the Snapshot before it; the queue only grows at
\* its tail; a pending reply is sent before the next read.
C15_DispatchInArrivalOrder ==
    [][/\ ret'.op = "read"
            => /\ websocket_task = "receiving"
               /\ reply = <<>>
               /\ inbox # <<>>
               /\ inbox' = Tail(inbox)
               /\ data' = on_message(data, Head(inbox)).data
               /\ reply' = on_message(data, Head(inbox)).request
       /\ reply # <<>>
            => /\ websocket_task = "dispatching"
               /\ ret'.op # "read"
               /\ reply' # reply => (ret'.op = "reply" /\ reply' = <<>>
                                     /\ sent' \in {<<>>, reply})
       /\ ret'.op = "arrive"
            => (Len(inbox') = Len(inbox) + 1 /\ SubSeq(inbox', 1, Len(inbox)) = inbox)]_vars

C15_Witness ==
    /\ ret.op = "read"
    /\ websocket_task = "dispatching"
    /\ Len(inbox) = MaxQueue - 1
    /\ reply = <<[type |-> "pong", timestamp |-> None]>>

\* C16: when the device closes the channel cleanly the coordinator becomes
\* disconnected: the connected flag and the handle are cleared, and a
\* send_device_command that follows the close returns False and writes no
\* frame.
C16_CleanCloseDisconnects ==
    [][/\ (ret'.op = "receive" /\ ret'.val = "closed")
            => (~websocket_connected' /\ ~websocket')
       /\ (ret = Returned("receive", "closed") /\ ret'.op = "send_device_command")
            => (ret'.val = "False" /\ sent' = <<>>)]_vars

\* C17: async_stop_websocket raises nothing, and a call that follows another
\* call, or that finds the handler never started, given up or cancelled,
\* leaves the coordinator as it found it.
C17_StopIdempotent ==
    [][ret'.op = "async_stop_websocket"
        => /\ ret'.val = "None"
           /\ (ret.op = "async_stop_websocket"
               \/ websocket_task \in {"none", "gave_up", "cancelled"})
                => UNCHANGED <<conn_vars, chan_vars, data>>]_vars

C17_Witness ==
    /\ ret = Returned("async_stop_websocket", "None")
    /\ websocket_task = "gave_up"
    /\ life = "unloaded"

\* C18: a message that cannot be decoded, or whose dispatch raises, is
\* dropped: the Snapshot, the connected flag, the handle and the attempt
\* counter are unchanged and the handler stays in the receive loop.
C18_BadFrameDropped ==
    [][\A f \in Frames \cup Garbage :
        (ReceiveFrame(f) /\ ret'.val = "raised")
        => /\ data' = data
           /\ UNCHANGED <<websocket_connected, websocket, retry_count>>
           /\ websocket_task' = "receiving"]_vars

\* the frames C19 is about: no known type and no command, or a reply whose
\* success is false or absent
Ignored(f) ==
    /\ f.type \notin {Some("sensor_update"), Some("status_update"), Some("ping")}
    /\ (f.command = None \/ ~f.success)

\* C19: a frame of unknown kind, and a command reply whose success is false or
\* absent, change nothing in the Snapshot, notify no observer and write no
\* frame.
IgnoredFrames == {f \in Frames : Ignored(f)}

C19_IgnoredFramesDoNothing ==
    [][\A f \in IgnoredFrames :
        ReceiveFrame(f)
        => (data' = data /\ ret'.val = "None" /\ sent' = <<>>
            /\ UNCHANGED <<websocket_connected, websocket>>)]_vars

C19_Witness ==
    /\ ret = Returned("receive", "None")
    /\ sent = <<>>
    /\ websocket_connected
    /\ data # NoData

\* C20: a successful reply is routed by its command: get_sensors with a
\* mapping payload makes sensors equal to the payload, get_status with a
\* mapping payload makes status equal to the payload, another command with a
\* non-empty mapping payload leaves status as it was overridden key by key by
\* the payload, and another command with an empty or non-mapping payload
\* leaves the Snapshot unchanged; the other two of sensors, status and screens
\* keep their values.
SuccessfulReplies == {f \in Frames : f.type = None /\ f.command # None /\ f.success}

C20_ReplyRouted ==
    [][\A f \in SuccessfulReplies :
        ReceiveFrame(f)
        => LET old == Existing(data)
               new == Existing(data')
               p == f.data
           IN IF f.command = Some("get_sensors")
              THEN /\ p.kind = "dict" => new.sensors = p.val
                   /\ new.status = old.status /\ new.screens = old.screens
              ELSE IF f.command = Some("get_status")
              THEN /\ p.kind = "dict" => new.status = p.val
                   /\ new.sensors = old.sensors /\ new.screens = old.screens
              ELSE IF p.kind = "dict" /\ p.val # EmptyDict
              THEN /\ DOMAIN new.status = DOMAIN old.status \cup DOMAIN p.val
                   /\ \A k \in DOMAIN p.val : new.status[k] = p.val[k]
                   /\ \A k \in DOMAIN old.status \ DOMAIN p.val :
                        new.status[k] = old.status[k]
                   /\ new.sensors = old.sensors /\ new.screens = old.screens
              ELSE data' = data]_vars

C20_Witness ==
    /\ ret = Returned("receive", "updated")
    /\ StatusOf(data) = [brightness |-> 7, last_status_update |-> 0]
    /\ sent = <<>>

\* C21 as stated: a send whose open/closed check raises is treated as not
\* connected: nothing is written to the transport and nothing is raised.
C21_FailedCheckSkipsSend ==
    [][\A cmd \in Commands, answer \in CheckFailures :
        (send_device_command(cmd, answer) /\ lib_closed_attr /\ websocket_connected
         /\ websocket)
        => (sent' = <<>> /\ ret'.val \in {"True", "False"})]_vars

\* C21: a send whose open/closed check raises goes on as if the transport
\* had reported itself open: the write is attempted and nothing is raised; a
\* write the transport accepts puts the command on the transport and leaves
\* the coordinator connected, a write that fails puts nothing on it and clears
\* the connected flag and the handle.
C21_FailedCheckCountsAsOpen ==
    [][\A cmd \in Commands, answer \in CheckFailures :
        (send_device_command(cmd, answer) /\ lib_closed_attr /\ websocket_connected
         /\ websocket)
        => /\ ret'.val \in {"True", "False"}
           /\ IF sock = "open" /\ answer = "check_raises"
              THEN sent' = <<cmd>> /\ websocket_connected' /\ websocket'
              ELSE sent' = <<>> /\ ~websocket_connected' /\ ~websocket']_vars

C21_Witness ==
    /\ lib_closed_attr
    /\ sock = "closed"
    /\ ret = Returned("send_device_command", "True")
    /\ sent = <<>>
    /\ ~websocket_connected
    /\ ~websocket

\* C22: a poll tick whose sensors or status request fails ends in UpdateFailed
\* with the Snapshot as it was and the poller ready for the next tick; a tick
\* whose screens request fails (another status, a transport error, a timeout)
\* still succeeds and its Snapshot carries the previous screens.
C22_OnlyRequiredRequestsFailTick ==
    [][\A r \in Failures :
        /\ (PollSensors({r}) \/ PollStatus({r}))
            => (ret' = Returned("poll", "UpdateFailed") /\ data' = data /\ poll' = Idle)
        /\ PollScreens({r})
            => /\ ret' = Returned("poll", "updated")
               /\ data' # NoData
               /\ get_enabled_screens(data') = get_enabled_screens(data)
               /\ poll' = Idle]_vars

\* C23: a poll tick that completes while the channel is connected does not
\* replace a sensors or status value the channel wrote after the tick fetched
\* that section. Under SpecFresh every dispatch writes both sections, so a
\* state reached by a dispatch while the tick is past its two fetches holds
\* such values, and the tick that completes next has to leave them.
C23_PollKeepsFresherPush ==
    [][(/\ ret = Returned("receive", "updated")
        /\ poll.pc = "screens"
        /\ websocket_connected
        /\ ret' = Returned("poll", "updated"))
        => (data'.sensors = data.sensors /\ data'.status = data.status)]_vars

SensorUpdates == {f \in Frames : f.type = Some("sensor_update")}

\* C24: after the dispatch of a sensor_update the sensors section holds the
\* keys of the payload with the payload's values, and the frame's
\* sensors_available flag under sensors_available unless the payload has that
\* key itself, and nothing else; with a timestamp t the status section has
\* last_sensor_update = t and every other key as before, without a timestamp
\* it is as before; the screens are as before.
C24_SensorUpdateApplied ==
    [][\A f \in SensorUpdates :
        ReceiveFrame(f)
        => LET p == IF f.data.kind = "dict" THEN f.data.val ELSE EmptyDict
               flag == IF f.sensors_available # None /\ "sensors_available" \notin DOMAIN p
                       THEN {"sensors_available"} ELSE {}
               old == Existing(data)
           IN /\ DOMAIN data'.sensors = DOMAIN p \cup flag
              /\ \A k \in DOMAIN p : data'.sensors[k] = p[k]
              /\ \A k \in flag : data'.sensors[k] = f.sensors_available[1]
              /\ IF f.timestamp # None
                 THEN /\ DOMAIN data'.status = DOMAIN old.status \cup {"last_sensor_update"}
                      /\ data'.status.last_sensor_update = f.timestamp[1]
                      /\ \A k \in DOMAIN old.status \ {"last_sensor_update"} :
                            data'.status[k] = old.status[k]
                 ELSE data'.status = old.status
              /\ data'.screens = old.screens]_vars

C24_Witness ==
    /\ ret.op = "receive"
    /\ SensorsOf(data) = [ens160 |-> 2, sensors_available |-> 0]
    /\ StatusOf(data) = [brightness |-> 7, last_sensor_update |-> 1]

\* the answers GET /status can get that identify a device: status 200 and a
\* mapping with the key "device"
Identifies(r) == r.kind = "ok" /\ r.body.kind = "dict" /\ "device" \in DOMAIN r.body.val

\* C25: a submitted config flow step issues exactly one request, GET /status;
\* it creates a config entry only if the answer has status 200 and a body
\* naming "device"; after every other answer (another status, a transport
\* error, a timeout, a body without the field) the form is shown again with
\* an error and the config entries are as before.
C25_ProbeNeedsDevice ==
    [][\A input \in HostInputs, r \in ProbeResponses :
        async_step_user(input, r)
        => /\ Len(flow'.requests) = 1
           /\ flow'.requests[1].method = "GET" /\ flow'.requests[1].path = "/status"
           /\ (flow'.type = "create_entry" \/ entries' # entries) => Identifies(r)
           /\ ~Identifies(r)
                => /\ flow'.type = "form"
                   /\ "base" \in DOMAIN flow'.errors
                   /\ entries' = entries]_vars

C25_Witness ==
    /\ flow # NoFlow
    /\ flow.type = "form"
    /\ flow.errors = [base |-> "cannot_connect"]
    /\ entries = {"AA:BB", "desk.local"}

\* a section that is a mapping, as opposed to a decoded payload stored as it
\* came; a section that is a list
IsMapping(v) == ~({"kind", "val"} \subseteq DOMAIN v)
IsList(v) == DOMAIN v = 1..Len(v)

\* a Snapshot of valid shape
ValidShape(d) ==
    d # NoData
    => /\ {"sensors", "status"} \subseteq DOMAIN d
       /\ IsMapping(d.sensors)
       /\ IsMapping(d.status)
       /\ "screens" \in DOMAIN d => IsList(d.screens)

\* C26: every Snapshot has mappings as sensors and status and a list as
\* screens; a push, a successful reply or a poll answer whose payload is not a
\* mapping counts as the empty mapping: the section it targets becomes empty
\* (but for the flag or timestamp the dispatcher folds in), and a reply to
\* another command writes nothing.
C26_SectionsKeepShape ==
    [][/\ ValidShape(data')
       /\ ret'.op = "receive" => \A f \in NonMappingFrames :
            ReceiveFrame(f)
            => IF f.type = Some("sensor_update")
               THEN data'.sensors = IF f.sensors_available # None
                                    THEN [sensors_available |-> f.sensors_available[1]]
                                    ELSE EmptyDict
               ELSE IF f.type = Some("status_update")
               THEN data'.status = IF f.timestamp # None
                                   THEN [last_status_update |-> f.timestamp[1]]
                                   ELSE EmptyDict
               ELSE IF f.type = None /\ f.success /\ f.command = Some("get_sensors")
               THEN data'.sensors = EmptyDict
               ELSE IF f.type = None /\ f.success /\ f.command = Some("get_status")
               THEN data'.status = EmptyDict
               ELSE data' = data
       /\ ret' = Returned("poll", "updated")
            => /\ poll.sensor_data.kind # "dict" => data'.sensors = EmptyDict
               /\ poll.status_data.kind # "dict" => data'.status = EmptyDict]_vars

C26_Witness ==
    /\ ret.op = "receive"
    /\ SensorsOf(data) = [sensors_available |-> 1]
    /\ StatusOf(data) = [brightness |-> 15]
    /\ get_enabled_screens(data) = <<"clock">>

\* the objects that are Snapshots: each was coordinator.data when it was made
SnapshotObjects(h) == {id \in 1..Len(h) : h[id].snapshot}

\* C27: no operation changes a Snapshot that was published before it: after
\* every dispatch, poll tick, toggle and brightness update each earlier
\* Snapshot object holds the value it held, and the operation's Snapshot is a
\* new object with all three sections that coordinator.data is made to refer
\* to in the same step.
C27_PublishedSnapshotsUntouched ==
    [][/\ \A id \in SnapshotObjects(heap) :
            id \in SnapshotObjects(heap') /\ Value(heap', id) = Value(heap, id)
       /\ root' # root
            => /\ root' > Len(heap)
               /\ root' \in SnapshotObjects(heap')
               /\ DOMAIN heap'[root'].val = {"sensors", "status", "screens"}
               /\ data' = Value(heap', root')]_vars

C27_Witness ==
    /\ ret.op = "object_toggle"
    /\ get_enabled_screens(Value(heap, root)) = <<"clock">>
    /\ \E id \in SnapshotObjects(heap) :
        id # root /\ get_enabled_screens(Value(heap, id)) = <<"clock", "temp">>

\* positions in which the handler task has ended
Ended(task) == task \in {"gave_up", "cancelled", "crashed"}

\* C28: the handler task ends only by giving up or by being cancelled: after a
\* failure of a connection attempt or of the receive loop it sleeps or gives
\* up, after a message that cannot be dispatched it goes on receiving, after a
\* failed send it goes on, and it ends in no other way.
C28_HandlerEndsOnlyByGiveUpOrCancel ==
    [][/\ Ended(websocket_task') => websocket_task' \in {"gave_up", "cancelled"}
       /\ (Ended(websocket_task') /\ ~Ended(websocket_task))
            => \/ (GivenUp' /\ retry_count' > WEBSOCKET_MAX_RETRIES)
               \/ (websocket_task' = "cancelled" /\ ret'.op = "async_stop_websocket")
       /\ (ret'.op \in {"connect", "receive"} /\ ret'.val \in FailureKinds)
            => websocket_task' \in {"backoff", "error_sleep", "gave_up"}
       /\ ret' = Returned("receive", "raised") => websocket_task' = "receiving"
       /\ ret'.op = "bootstrap"
            => websocket_task' \in {"bootstrap_sensors", "receiving"}]_vars

C28_Witness ==
    /\ websocket_task = "error_sleep"
    /\ ret = Returned("receive", "unexpected_error")
    /\ websocket_connected

\* C29: every failed connection attempt, whatever it raises, counts toward
\* the retry ceiling: it raises the attempt counter by one, and the attempt
\* that raises the counter above the ceiling ends in GivenUp, so that a run of
\* failing attempts reaches GivenUp with the sixth.
C29_EveryFailedAttemptCounts ==
    [][(ret'.op = "connect" /\ ret'.val \in FailureKinds)
        => /\ retry_count' = retry_count + 1
           /\ retry_count' > WEBSOCKET_MAX_RETRIES => GivenUp']_vars

\* the place of a screen in the canonical order
Place(screen) == CHOOSE i \in 1..Len(DEFAULT_SCREEN_ORDER) : DEFAULT_SCREEN_ORDER[i] = screen

\* a list of known screens in canonical order, each at most once
Canonical(l) ==
    /\ Range(l) \subseteq Range(DEFAULT_SCREEN_ORDER)
    /\ \A i, j \in 1..Len(l) : i < j => Place(l[i]) < Place(l[j])

\* C30: the list a screen toggle posts to the device, and the list it writes
\* into the Snapshot when the device acknowledges it, is in the canonical order
\* clock, temp, humidity, pressure, gas, iaq without duplicates, whatever the
\* order and content of the stored list.
C30_ToggleListCanonical ==
    [][/\ posted' # <<>> => Canonical(posted'[1].screens)
       /\ \A new_screens \in posts' : Canonical(new_screens)
       /\ ret' = Returned("set_enabled", "updated")
            => /\ Canonical(get_enabled_screens(data'))
               /\ get_enabled_screens(data') \in posts]_vars

C30_Witness ==
    /\ ret = Returned("set_enabled", "posting")
    /\ get_enabled_screens(data) = <<"weather", "clock">>
    /\ posted = <<[screens |-> <<"clock", "temp">>]>>

\* C31: a screen toggle changes the membership of its target only: every other
\* screen enabled in the Snapshot when the toggle starts is in the list the
\* toggle posts, which is the list it commits.
C31_ToggleKeepsOtherScreens ==
    [][\A screen_id \in Switches, enabled \in BOOLEAN :
        (set_enabled(screen_id, enabled) /\ posted' # <<>>)
        => Range(get_enabled_screens(data)) \ {screen_id} \subseteq Range(posted'[1].screens)]_vars

\* the screens enabled in exactly one of two lists
Changed(l, m) == (Range(l) \ Range(m)) \cup (Range(m) \ Range(l))

\* C32: when two toggles overlap and the device acknowledges both, no update
\* is lost: the commit of the toggle acknowledged second, made on the Snapshot
\* the first one committed while the second was in flight, changes the
\* membership of its own target at most and keeps what the first committed.
C32_OverlappingTogglesBothKept ==
    [][\A new_screens \in posts :
        (ret = Returned("set_enabled", "updated") /\ ToggleAnswer(new_screens, "ok"))
        => Cardinality(Changed(get_enabled_screens(data), get_enabled_screens(data'))) <= 1]_vars

\* C33: when the device acknowledges a change of the screen rotation, made by
\* a screen toggle or by the set_screen_rotation service, the Snapshot's
\* screens list is the acknowledged list.
C33_SnapshotHoldsAcknowledgedList ==
    [][/\ \A new_screens \in posts :
            ToggleAnswer(new_screens, "ok") => get_enabled_screens(data') = new_screens
       /\ \A input \in RotationInputs :
            (set_screen_rotation_service(input, "ok") /\ posted' # <<>>)
            => get_enabled_screens(data') = posted'[1].screens]_vars

\* C34: the coordinator is Connected for as long as its handler is in the
\* receive loop of a connection: the loop reads and dispatches no frame in a
\* state in which commands are refused and replies are skipped.
C34_ConnectedWhileReceiving ==
    [][(websocket_task = "receiving" /\ ret'.op = "read")
        => websocket_connected /\ websocket]_vars

\* the handler tasks that exist and are not done
LiveTasks == {task \in old_tasks \cup {websocket_task} : Live(task)}

\* C35: a coordinator has at most one handler task that is not done, however
\* async_start_websocket and async_stop_websocket calls interleave: every task
\* _websocket_task let go of was done, and a start that finds a task still
\* running creates none.
C35_AtMostOneHandlerTask ==
    /\ \A task \in old_tasks : Done(task)
    /\ Cardinality(LiveTasks) <= 1

C35_Witness ==
    /\ ret = Returned("async_start_websocket", "None")
    /\ websocket_task = "cancelling"
    /\ "cancelled" \in old_tasks

\* the brightness the Snapshot holds, <<>> if it holds none
BrightnessOf(d) == Get(StatusOf(d), "brightness", None)

\* C36: when async_set_native_value returns normally, a set_brightness frame
\* with the value clamped to 0..15 was written to the transport and the
\* Snapshot's status.brightness is that value; when no frame was written, the
\* Snapshot's brightness is unchanged and HomeAssistantError is raised.
C36_BrightnessWrittenOrRefused ==
    [][ret'.op = "set_native_value"
        => /\ ret'.val = "None"
                => \E value \in BrightnessInputs :
                    /\ sent' = <<[command |-> "set_brightness", value |-> Clamp(value)]>>
                    /\ BrightnessOf(data') = Clamp(value)
           /\ sent' = <<>>
                => /\ BrightnessOf(data') = BrightnessOf(data)
                   /\ ret'.val = "HomeAssistantError"]_vars

\* C38: with two or more devices configured, a service call that names the
\* device of a coordinator in the registry is delivered to that coordinator
\* and to no other.
C38_ServiceReachesItsDevice ==
    [][(ret'.op = "service" /\ Len(registry) >= 2)
        => \A entry_id \in Range(registry) :
            ret'.device = entry_id => ret'.coordinator = Some(entry_id)]_vars

\* no setup and no unload is under way
Settled == \A entry_id \in Entries : setups[entry_id].pc \notin {"forwarding", "unloading"}

\* C39: whenever no setup and no unload is under way, the services are
\* registered exactly if the registry holds a coordinator.
C39_ServicesIffCoordinators == Settled => (services <=> registry # <<>>)

\* C37: the handler of a coordinator is started only after its first fetch
\* succeeded, so a Snapshot exists whenever the handler exists and dispatches a
\* frame; an entry whose first fetch failed has no handler task and no
\* coordinator in the registry.
C37_HandlerStartsAfterFirstFetch ==
    /\ websocket_task # "none" => data # NoData
    /\ life = "failed" => websocket_task = "none"
    /\ \A entry_id \in Entries :
        /\ setups[entry_id].started => setups[entry_id].fetched
        /\ setups[entry_id].pc = "not_ready"
            => ~setups[entry_id].started /\ entry_id \notin Range(registry)

C37_Witness ==
    /\ life = "failed"
    /\ setups[1].pc = "not_ready"
    /\ setups[2].started
    /\ registry = <<2>>

\* the answers GET /status can get with status 200 and a mapping that has no
\* "device" field
Unidentified(r) == r.kind = "ok" /\ r.body.kind = "dict" /\ "device" \notin DOMAIN r.body.val

\* C40: the config flow reports a device that answers GET /status with status
\* 200 and no "device" field with the error invalid_device, and a device that
\* cannot be reached or answers another status with the error cannot_connect.
C40_FlowErrorsTellCause ==
    [][\A input \in HostInputs, r \in ProbeResponses :
        async_step_user(input, r)
        => /\ Unidentified(r)
                => flow'.type = "form" /\ flow'.errors = [base |-> "invalid_device"]
           /\ r \in Failures
                => flow'.type = "form" /\ flow'.errors = [base |-> "cannot_connect"]]_vars

====
